---- MODULE Spec2Model ----
(***************************************************************************)
(* A model of the result-reading layer of scylla-rust-wrapper:             *)
(* query_result.rs (values, rows, results, the iterator state machines and *)
(* the typed scalar accessors).                                            *)
(*                                                                         *)
(* Conventions.                                                            *)
(*   Option<T>  is a sequence of length 0 (None) or 1 (Some(x)).           *)
(*   A raw pointer returned to C is an Option too: None is the null        *)
(*   pointer, Some(x) points at x.                                         *)
(*   A frame slice is a sequence of cells.  A primitive's cells are its    *)
(*   bytes.  A list/set/map frame is <<n, e1, .., ek>>: the length prefix  *)
(*   followed by the raw elements ([bytes], each an Option of a frame);    *)
(*   a tuple or user-type frame is <<e1, .., ek>>.                         *)
(*   A panic in an extern "C" function ends the process: aborted = TRUE.   *)
(*   Source frames are well-formed encodings; a user-type frame may omit   *)
(*   trailing fields.                                                      *)
(***************************************************************************)
EXTENDS Integers, Sequences, FiniteSets, TLC

\* ------------------------------------------------------------------ bounds
\* Most elements of a list/set/tuple/record, pairs of a map, columns of a row,
\* entries of a metadata mapping.
MaxLen == 2
\* Most rows of a result.
MaxRows == 2
\* Integer payloads are 1..MaxVal.
MaxVal == 2
\* cass_iterator_next is called at most count + ExtraCalls times on an iterator.
ExtraCalls == 2
\* Most characters of a column name the caller looks up.
MaxName == 3
\* Most result iterators made from one result.
MaxIters == 3

\* ------------------------------------------------------------------ Option
None == <<>>
Some(x) == <<x>>
is_some(o) == Len(o) = 1
is_none(o) == Len(o) = 0
unwrap(o) == o[1]

\* All sequences over S of length lo..hi.
SeqsOf(S, lo, hi) == UNION {[1..n -> S] : n \in lo..hi}

\* ------------------------------------------------------------------ types
\* ColumnType, and the CassDataType get_column_type derives from it: the
\* kind and its type arguments (for a user type: <<name, type>> pairs).
Prim(k) == [kind |-> k, args |-> <<>>]
IntType == Prim("Int")
TextType == Prim("Text")
ListOf(t) == [kind |-> "List", args |-> <<t>>]
SetOf(t) == [kind |-> "Set", args |-> <<t>>]
MapOf(k, v) == [kind |-> "Map", args |-> <<k, v>>]
TupleOf(ts) == [kind |-> "Tuple", args |-> ts]
UserDefinedType(fields) == [kind |-> "UserDefinedType", args |-> fields]

is_collection(data_type) == data_type.kind \in {"List", "Set", "Map"}
is_map(data_type) == data_type.kind = "Map"
is_tuple(data_type) == data_type.kind = "Tuple"
is_user_type(data_type) == data_type.kind = "UserDefinedType"
get_tuple_types(data_type) == data_type.args
get_udt_field_types(data_type) == data_type.args

\* ------------------------------------------------------------------ frames
\* The 4-byte big-endian encoding of a small non-negative int.
IntFrame(v) == <<0, 0, 0, v>>
frame_is_empty(f) == Len(f) = 0

\* types::read_int_length: the leading length prefix, or an error when the
\* slice is too short or the length negative.
read_int_length(mem) ==
    IF Len(mem) >= 1 /\ mem[1] >= 0 THEN [ok |-> TRUE, len |-> mem[1]]
    ELSE [ok |-> FALSE, len |-> 0]

\* ------------------------------------------------------------------ values
RawValue(spec, slice) == [spec |-> spec, slice |-> slice]

\* mutant: a map counts its raw entries, two per pair
decode_value_entries(raw_value, val_type) ==
    LET data_type == val_type
        frame_slice == raw_value.slice
        is_null == is_none(frame_slice) \/ frame_is_empty(unwrap(frame_slice))
        len == IF is_some(frame_slice) THEN read_int_length(unwrap(frame_slice))
               ELSE [ok |-> FALSE, len |-> 0]
        count == IF is_some(frame_slice) /\ is_map(data_type) THEN 2 * len.len
                 ELSE IF is_some(frame_slice) /\ is_collection(data_type) THEN len.len
                 ELSE IF is_some(frame_slice) /\ is_user_type(data_type)
                      THEN Len(get_udt_field_types(data_type))
                 ELSE IF is_some(frame_slice) /\ is_tuple(data_type)
                      THEN Len(get_tuple_types(data_type))
                 ELSE 0
    IN  IF is_some(frame_slice) /\ is_collection(data_type) /\ ~len.ok THEN None
        ELSE Some([frame_slice |-> frame_slice,
                   is_null |-> is_null,
                   count |-> count,
                   value_type |-> data_type])

decode_value(raw_value, val_type) ==
    LET data_type == val_type
        frame_slice == raw_value.slice
        is_null == is_none(frame_slice) \/ frame_is_empty(unwrap(frame_slice))
        len == IF is_some(frame_slice) THEN read_int_length(unwrap(frame_slice))
               ELSE [ok |-> FALSE, len |-> 0]
        count == IF is_some(frame_slice) /\ is_collection(data_type) THEN len.len
                 ELSE IF is_some(frame_slice) /\ is_user_type(data_type)
                      THEN Len(get_udt_field_types(data_type))
                 ELSE IF is_some(frame_slice) /\ is_tuple(data_type)
                      THEN Len(get_tuple_types(data_type))
                 ELSE 0
    IN  IF is_some(frame_slice) /\ is_collection(data_type) /\ ~len.ok THEN None
        ELSE Some([frame_slice |-> frame_slice,
                   is_null |-> is_null,
                   count |-> count,
                   value_type |-> data_type])

\* ------------------------------------------------------------------ result
\* QueryResult (the driver's response): rows is None for a response that is
\* not a rows response, else the raw rows, each a sequence of raw columns;
\* col_specs names and types the columns.
rows_num(query_result) ==
    IF is_some(query_result.rows) THEN Some(Len(unwrap(query_result.rows))) ELSE None

column_specs(query_result) ==
    IF is_some(query_result.rows) THEN Some(query_result.col_specs) ELSE None

\* QueryResult::rows::<ColumnIterator>(): a new typed iterator over the rows of
\* the response, starting at the first row.
rows(query_result) == unwrap(query_result.rows)

\* ColumnIterator: the raw columns of one raw row, each with its column spec.
ColumnIterator(query_result, raw_row) ==
    [i \in 1..Len(raw_row) |-> [spec |-> query_result.col_specs[i], slice |-> raw_row[i]]]

CassRow(columns) == [columns |-> columns]

\* Building a CassResult from a response decodes exactly the first row's
\* columns when at least one row exists.
CassResultNew(query_result) ==
    LET n == rows_num(query_result)
        first == ColumnIterator(query_result, rows(query_result)[1])
    IN  [result |-> query_result,
         first_row |-> IF is_some(n) /\ unwrap(n) > 0
                       THEN Some(CassRow([i \in 1..Len(first) |->
                                unwrap(decode_value(RawValue(first[i].spec.typ, first[i].slice),
                                                    first[i].spec.typ))]))
                       ELSE None]


\* mutant: the decoded columns are appended to the row slot
decode_next_row_push(result, row) ==
    IF is_some(row)
    THEN LET next_cols_iter == ColumnIterator(result.result, Head(rows(result.result)))
             decoded == [i \in 1..Len(next_cols_iter) |->
                            decode_value(RawValue(next_cols_iter[i].spec.typ,
                                                  next_cols_iter[i].slice),
                                         next_cols_iter[i].spec.typ)]
         IN  [ok |-> TRUE,
              row |-> Some(CassRow(unwrap(row).columns
                                   \o [i \in 1..Len(decoded) |-> unwrap(decoded[i])]))]
    ELSE [ok |-> TRUE, row |-> row]

\* decode_next_row: true when the columns of the row it reads were written
\* into the iterator's row slot (or there is no slot to write), with the slot.
decode_next_row(result, row) ==
    IF is_some(row)
    THEN LET rows_iter == rows(result.result)
             next_cols_iter == ColumnIterator(result.result, Head(rows_iter))
             decoded == [i \in 1..Len(next_cols_iter) |->
                            decode_value(RawValue(next_cols_iter[i].spec.typ,
                                                  next_cols_iter[i].slice),
                                         next_cols_iter[i].spec.typ)]
             \* the columns before the first one that does not decode are written
             bad == {i \in 1..Len(decoded) : is_none(decoded[i])}
             upto == IF bad = {} THEN Len(decoded)
                     ELSE (CHOOSE i \in bad : \A j \in bad : i <= j) - 1
             old == unwrap(row).columns
         IN  [ok |-> bad = {},
              row |-> Some(CassRow([i \in 1..Len(old) |->
                          IF i <= upto THEN unwrap(decoded[i]) ELSE old[i]]))]
    ELSE [ok |-> TRUE, row |-> row]

\* ------------------------------------------------------------------ wire iterators
\* The driver's lazy iterators over a frame, as the raw items they have yet
\* to yield; next() yields the head.

\* SequenceIterator::deserialize over a list or set frame <<n, e1, .., en>>.
SequenceIterator_deserialize(column_type, frame_slice) ==
    LET frame == unwrap(frame_slice)
    IN  [i \in 1..(Len(frame) - 1) |-> RawValue(column_type.args[1], frame[i + 1])]

\* SequenceIterator::new over a tuple frame: item_count items, each tagged with
\* the type the caller passed (the tuple's own type).
SequenceIterator_new(column_type, item_count, frame) ==
    [i \in 1..item_count |-> RawValue(column_type, frame[i])]

\* MapIterator::deserialize over a map frame <<n, k1, v1, .., kn, vn>>.
MapIterator_deserialize(column_type, frame_slice) ==
    LET frame == unwrap(frame_slice)
    IN  [i \in 1..((Len(frame) - 1) \div 2) |->
            <<RawValue(column_type.args[1], frame[2 * i]),
              RawValue(column_type.args[2], frame[2 * i + 1])>>]

\* UdtIterator::new: one item per declared field, <<name, type, raw>>, where raw
\* is None when the frame ends before the field and Some(slice) otherwise.
UdtIterator_new(fields, frame) ==
    [i \in 1..Len(fields) |->
        [name |-> fields[i][1], typ |-> fields[i][2],
         raw |-> IF i <= Len(frame) THEN Some(frame[i]) ELSE None]]

\* ------------------------------------------------------------------ iterators
\* CassIterator: the variant and the fields of the variant's struct (the
\* fields a variant does not have are left at their empty value).  For the
\* metadata iterators, value is the metadata object iterated over.
Iterator(variant) ==
    [variant |-> variant, position |-> None, count |-> 0,
     result |-> None, row |-> None,
     sequence_iterator |-> <<>>, map_iterator |-> <<>>, udt_iterator |-> <<>>,
     value |-> None, key |-> None, field_name |-> None, field_value |-> None]

\* The constructors return a pointer: None is the null pointer.
NullPtr == None


\* mutant: the first row is moved out of the result into the iterator
cass_iterator_from_result_take(result) ==
    Some([Iterator("CassResultIterator") EXCEPT
            !.result = Some([result EXCEPT !.first_row = None]),
            !.row = result.first_row])

cass_iterator_from_result(result) ==
    LET row == IF is_some(result.first_row)
               THEN Some(CassRow(unwrap(result.first_row).columns))
               ELSE None
    IN  Some([Iterator("CassResultIterator") EXCEPT !.result = Some(result), !.row = row])

cass_iterator_from_row(row) ==
    Some([Iterator("CassRowIterator") EXCEPT !.row = Some(row)])

cass_iterator_from_collection(collection) ==
    IF ~collection.is_null /\ is_collection(collection.value_type)
    THEN LET item_count == collection.count
             column_type == collection.value_type
         IN  IF column_type.kind = "Map"
             THEN Some([Iterator("SeqMapIterator") EXCEPT
                          !.map_iterator = MapIterator_deserialize(column_type,
                                                                   collection.frame_slice),
                          !.count = item_count * 2])
             ELSE Some([Iterator("SequenceIterator") EXCEPT
                          !.sequence_iterator = SequenceIterator_deserialize(column_type,
                                                                   collection.frame_slice),
                          !.count = item_count])
    ELSE NullPtr

\* mutant: a tuple iterator is built without looking at is_null or the span
cass_iterator_from_tuple_unchecked(tuple) ==
    IF is_tuple(tuple.value_type)
    THEN Some([Iterator("CassTupleIterator") EXCEPT !.count = tuple.count])
    ELSE NullPtr

cass_iterator_from_tuple(tuple) ==
    IF ~tuple.is_null /\ is_tuple(tuple.value_type) /\ is_some(tuple.frame_slice)
    THEN LET item_count == tuple.count
         IN  Some([Iterator("CassTupleIterator") EXCEPT
                     !.sequence_iterator = SequenceIterator_new(tuple.value_type, item_count,
                                                                unwrap(tuple.frame_slice)),
                     !.count = item_count])
    ELSE NullPtr

cass_iterator_from_map(map) ==
    IF ~map.is_null /\ is_map(map.value_type)
    THEN Some([Iterator("CassMapIterator") EXCEPT
                 !.map_iterator = MapIterator_deserialize(map.value_type, map.frame_slice),
                 !.count = map.count])
    ELSE NullPtr

cass_iterator_fields_from_user_type(udt) ==
    IF ~udt.is_null /\ is_user_type(udt.value_type) /\ is_some(udt.frame_slice)
    THEN Some([Iterator("CassUdtIterator") EXCEPT
                 !.udt_iterator = UdtIterator_new(udt.value_type.args,
                                                  unwrap(udt.frame_slice)),
                 !.count = udt.count])
    ELSE NullPtr

\* Metadata: each mapping is the sequence of its entries in traversal order.
cass_iterator_keyspaces_from_schema_meta(schema_meta) ==
    Some([Iterator("CassSchemaMetaIterator") EXCEPT
            !.value = schema_meta, !.count = Len(schema_meta.keyspaces)])

cass_iterator_tables_from_keyspace_meta(keyspace_meta) ==
    Some([Iterator("CassKeyspaceMetaTableIterator") EXCEPT
            !.value = keyspace_meta, !.count = Len(keyspace_meta.tables)])

cass_iterator_materialized_views_from_keyspace_meta(keyspace_meta) ==
    Some([Iterator("CassKeyspaceMetaViewIterator") EXCEPT
            !.value = keyspace_meta, !.count = Len(keyspace_meta.views)])

cass_iterator_user_types_from_keyspace_meta(keyspace_meta) ==
    Some([Iterator("CassKeyspaceMetaUserTypeIterator") EXCEPT
            !.value = keyspace_meta,
            !.count = Len(keyspace_meta.user_defined_type_data_type)])

cass_iterator_columns_from_table_meta(table_meta) ==
    Some([Iterator("CassTableMetaIterator") EXCEPT
            !.value = table_meta, !.count = Len(table_meta.columns_metadata)])

cass_iterator_materialized_views_from_table_meta(table_meta) ==
    Some([Iterator("CassTableMetaIterator") EXCEPT
            !.value = table_meta, !.count = Len(table_meta.views)])

cass_iterator_columns_from_materialized_view_meta(view_meta) ==
    Some([Iterator("CassViewMetaIterator") EXCEPT
            !.value = view_meta, !.count = Len(view_meta.view_metadata.columns_metadata)])

\* ------------------------------------------------------------------ advance
\* What a call leaves behind: the iterator, the value returned, and whether
\* the call panicked instead of returning.
Returned(iter, ret) == [iter |-> iter, ret |-> ret, panic |-> FALSE]
Panicked(iter) == [iter |-> iter, ret |-> FALSE, panic |-> TRUE]


\* mutant: the first advance lands on position 1
new_position_from_one(position) == IF is_some(position) THEN unwrap(position) + 1 ELSE 1

new_position(position) == IF is_some(position) THEN unwrap(position) + 1 ELSE 0

\* One arm of cass_iterator_next per variant; it is the iterator with its
\* position already moved to new_pos.
result_iterator_next(it, new_pos) ==
    LET rs == rows_num(unwrap(it.result).result)
    IN  IF is_some(rs) /\ new_pos < unwrap(rs)
        THEN LET d == decode_next_row(unwrap(it.result), it.row)
             IN  Returned([it EXCEPT !.row = d.row], d.ok)
        ELSE Returned(it, FALSE)


\* mutant: the bound is tested with <=
row_iterator_next_le(it, new_pos) ==
    Returned(it, new_pos <= Len(unwrap(it.row).columns))


\* mutant: an exhausted row iterator starts over
row_iterator_next_restart(it, new_pos) ==
    IF new_pos < Len(unwrap(it.row).columns) THEN Returned(it, TRUE)
    ELSE Returned([it EXCEPT !.position = None], FALSE)

row_iterator_next(it, new_pos) ==
    Returned(it, new_pos < Len(unwrap(it.row).columns))


\* mutant: the wire iterator is asked before the bound is tested
seq_iterator_next_eager(it, new_pos) ==
    IF it.sequence_iterator = <<>> THEN Panicked(it)
    ELSE LET raw == Head(it.sequence_iterator)
             rest == [it EXCEPT !.sequence_iterator = Tail(it.sequence_iterator)]
         IN  IF new_pos < it.count
             THEN Returned([rest EXCEPT !.value = decode_value(raw, raw.spec)], TRUE)
             ELSE Returned(rest, FALSE)

seq_iterator_next(it, new_pos) ==
    IF new_pos < it.count
    THEN IF it.sequence_iterator = <<>> THEN Panicked(it)
         ELSE LET raw == Head(it.sequence_iterator)
              IN  Returned([it EXCEPT
                             !.sequence_iterator = Tail(it.sequence_iterator),
                             !.value = decode_value(raw, raw.spec)], TRUE)
    ELSE Returned(it, FALSE)


\* mutant: a pair is decoded on every advance, whatever the parity
seq_map_iterator_next_every(it, new_pos) ==
    IF new_pos < it.count
    THEN IF it.map_iterator = <<>> THEN Panicked(it)
         ELSE LET raw_key == Head(it.map_iterator)[1]
                  raw_value == Head(it.map_iterator)[2]
              IN  Returned([it EXCEPT
                             !.map_iterator = Tail(it.map_iterator),
                             !.key = decode_value(raw_key, raw_key.spec),
                             !.value = decode_value(raw_value, raw_value.spec)],
                           TRUE)
    ELSE Returned(it, FALSE)

seq_map_iterator_next(it, new_pos) ==
    IF new_pos < it.count
    THEN IF new_pos % 2 = 0
         THEN IF it.map_iterator = <<>> THEN Panicked(it)
              ELSE LET raw_key == Head(it.map_iterator)[1]
                       raw_value == Head(it.map_iterator)[2]
                   IN  Returned([it EXCEPT
                                  !.map_iterator = Tail(it.map_iterator),
                                  !.key = decode_value(raw_key, raw_key.spec),
                                  !.value = decode_value(raw_value, raw_value.spec)],
                                TRUE)
         ELSE Returned(it, TRUE)
    ELSE Returned(it, FALSE)


\* mutant: every element is decoded with the first declared element type
tuple_iterator_next_first_type(it, new_pos) ==
    IF new_pos < it.count
    THEN LET raw == Head(it.sequence_iterator)
         IN  Returned([it EXCEPT
                         !.sequence_iterator = Tail(it.sequence_iterator),
                         !.value = decode_value(raw, raw.spec.args[1])], TRUE)
    ELSE Returned(it, FALSE)

tuple_iterator_next(it, new_pos) ==
    IF new_pos < it.count
    THEN IF it.sequence_iterator = <<>> THEN Panicked(it)
         ELSE LET raw == Head(it.sequence_iterator)
                  rest == [it EXCEPT !.sequence_iterator = Tail(it.sequence_iterator)]
              IN  IF raw.spec.kind # "Tuple" THEN Panicked(rest)
                  ELSE IF new_pos < Len(raw.spec.args)
                  THEN Returned([rest EXCEPT
                          !.value = decode_value(raw, raw.spec.args[new_pos + 1])], TRUE)
                  ELSE Returned(rest, FALSE)
    ELSE Returned(it, FALSE)


\* mutant: the value slot is filled from the raw key
map_iterator_next_key_twice(it, new_pos) ==
    IF new_pos < it.count
    THEN LET raw_key == Head(it.map_iterator)[1]
             raw_value == Head(it.map_iterator)[2]
         IN  Returned([it EXCEPT
                         !.map_iterator = Tail(it.map_iterator),
                         !.key = decode_value(raw_key, raw_key.spec),
                         !.value = decode_value(raw_key, raw_value.spec)], TRUE)
    ELSE Returned(it, FALSE)

map_iterator_next(it, new_pos) ==
    IF new_pos < it.count
    THEN IF it.map_iterator = <<>> THEN Panicked(it)
         ELSE LET raw_key == Head(it.map_iterator)[1]
                  raw_value == Head(it.map_iterator)[2]
              IN  Returned([it EXCEPT
                             !.map_iterator = Tail(it.map_iterator),
                             !.key = decode_value(raw_key, raw_key.spec),
                             !.value = decode_value(raw_value, raw_value.spec)], TRUE)
    ELSE Returned(it, FALSE)


\* mutant: a field absent from the frame is reported as a successful advance
udt_iterator_next_absent_ok(it, new_pos) ==
    IF new_pos < it.count
    THEN LET item == Head(it.udt_iterator)
             rest == [it EXCEPT !.udt_iterator = Tail(it.udt_iterator)]
         IN  IF is_some(item.raw)
             THEN Returned([rest EXCEPT
                     !.field_value = decode_value(RawValue(item.typ, unwrap(item.raw)),
                                                  item.typ),
                     !.field_name = Some(item.name)], TRUE)
             ELSE Returned(rest, TRUE)
    ELSE Returned(it, FALSE)

udt_iterator_next(it, new_pos) ==
    IF new_pos < it.count
    THEN IF it.udt_iterator = <<>> THEN Panicked(it)
         ELSE LET item == Head(it.udt_iterator)
                  rest == [it EXCEPT !.udt_iterator = Tail(it.udt_iterator)]
              IN  IF is_some(item.raw)
                  THEN Returned([rest EXCEPT
                          !.field_value = decode_value(RawValue(item.typ, unwrap(item.raw)),
                                                       item.typ),
                          !.field_name = Some(item.name)], TRUE)
                  ELSE Returned(rest, FALSE)
    ELSE Returned(it, FALSE)


\* mutant: the bound is tested with # instead of <
meta_iterator_next_ne(it, new_pos) == Returned(it, new_pos # it.count)

\* The six metadata variants share one arm.
meta_iterator_next(it, new_pos) == Returned(it, new_pos < it.count)

cass_iterator_next(iter) ==
    LET new_pos == new_position(iter.position)
        it == [iter EXCEPT !.position = Some(new_pos)]
    IN  CASE iter.variant = "CassResultIterator" -> result_iterator_next(it, new_pos)
          [] iter.variant = "CassRowIterator" -> row_iterator_next(it, new_pos)
          [] iter.variant = "SequenceIterator" -> seq_iterator_next(it, new_pos)
          [] iter.variant = "SeqMapIterator" -> seq_map_iterator_next(it, new_pos)
          [] iter.variant = "CassTupleIterator" -> tuple_iterator_next(it, new_pos)
          [] iter.variant = "CassMapIterator" -> map_iterator_next(it, new_pos)
          [] iter.variant = "CassUdtIterator" -> udt_iterator_next(it, new_pos)
          [] OTHER -> meta_iterator_next(it, new_pos)

\* mutant: the advance moves the other iterator the caller holds as well
next_beside_shared(iter, other) ==
    [call |-> cass_iterator_next(iter),
     other |-> IF is_some(other) THEN Some(cass_iterator_next(unwrap(other)).iter)
               ELSE other]

\* mutant: the advance puts the other iterator back before its first item
next_beside_reset(iter, other) ==
    [call |-> cass_iterator_next(iter),
     other |-> IF is_some(other) THEN Some([unwrap(other) EXCEPT !.position = None])
               ELSE other]

\* cass_iterator_next writes through the one pointer it is given: the call on
\* iter, and the other iterator the caller holds as the call leaves it.
next_beside(iter, other) == [call |-> cass_iterator_next(iter), other |-> other]

\* ------------------------------------------------------------------ current accessors
\* What an accessor call yields: the pointer returned (None is null), or the
\* status returned with the value written to the output slot, or a panic.
Ptr(p) == [panic |-> FALSE, status |-> "pointer", ptr |-> p]
Null == Ptr(None)
Status(st, written) == [panic |-> FALSE, status |-> st, ptr |-> written]
Panic == [panic |-> TRUE, status |-> "panic", ptr |-> None]

\* Vec::get / Iterator::nth with a 0-based index.
get(seq, index) == IF index < Len(seq) THEN Some(seq[index + 1]) ELSE None


\* mutant: the row is handed out only while another row follows
cass_iterator_get_row_strict(iter) ==
    IF iter.variant = "CassResultIterator"
    THEN IF is_none(iter.position) THEN Null
         ELSE LET rows_count == rows_num(unwrap(iter.result).result)
              IN  IF is_some(rows_count)
                     /\ is_some(iter.row) /\ unwrap(iter.position) + 1 < unwrap(rows_count)
                  THEN Ptr(iter.row)
                  ELSE Null
    ELSE Null

cass_iterator_get_row(iter) ==
    IF iter.variant = "CassResultIterator"
    THEN IF is_none(iter.position) THEN Null
         ELSE LET rows_count == rows_num(unwrap(iter.result).result)
              IN  IF is_some(rows_count)
                     /\ is_some(iter.row) /\ unwrap(iter.position) < unwrap(rows_count)
                  THEN Ptr(iter.row)
                  ELSE Null
    ELSE Null

cass_iterator_get_column(iter) ==
    IF iter.variant = "CassRowIterator"
    THEN IF is_none(iter.position) THEN Null
         ELSE Ptr(get(unwrap(iter.row).columns, unwrap(iter.position)))
    ELSE Null


\* mutant: the dedicated map iterator's value slot is served too
cass_iterator_get_value_any(iter) ==
    CASE iter.variant \in {"SequenceIterator", "CassTupleIterator", "CassMapIterator"} ->
           IF is_some(iter.value) THEN Ptr(iter.value) ELSE Null
      [] iter.variant = "SeqMapIterator" ->
           IF is_some(iter.key) /\ is_some(iter.value) /\ is_some(iter.position)
           THEN IF unwrap(iter.position) % 2 = 0 THEN Ptr(iter.key) ELSE Ptr(iter.value)
           ELSE Null
      [] OTHER -> Null

cass_iterator_get_value(iter) ==
    CASE iter.variant = "SequenceIterator" ->
           IF is_some(iter.value) THEN Ptr(iter.value) ELSE Null
      [] iter.variant = "SeqMapIterator" ->
           IF is_some(iter.key) /\ is_some(iter.value) /\ is_some(iter.position)
           THEN IF unwrap(iter.position) % 2 = 0 THEN Ptr(iter.key) ELSE Ptr(iter.value)
           ELSE Null
      [] iter.variant = "CassTupleIterator" ->
           IF is_some(iter.value) THEN Ptr(iter.value) ELSE Null
      [] OTHER -> Null

\* assert!(position.map(|pos| pos < count).is_some()): Option::map keeps Some
\* as Some, so the assertion holds exactly when position is Some.
position_assertion(position, count) == is_some(position)

cass_iterator_get_map_key(iter) ==
    CASE iter.variant = "CassMapIterator" ->
           IF ~position_assertion(iter.position, iter.count) THEN Panic
           ELSE IF is_none(iter.key) THEN Panic
           ELSE Ptr(iter.key)
      [] iter.variant = "SeqMapIterator" ->
           IF is_none(iter.key) THEN Panic ELSE Ptr(iter.key)
      [] OTHER -> Null

cass_iterator_get_map_value(iter) ==
    CASE iter.variant = "CassMapIterator" ->
           IF ~position_assertion(iter.position, iter.count) THEN Panic
           ELSE IF is_none(iter.value) THEN Panic
           ELSE Ptr(iter.value)
      [] iter.variant = "SeqMapIterator" ->
           IF is_none(iter.value) THEN Panic ELSE Ptr(iter.value)
      [] OTHER -> Null

cass_iterator_get_user_type_field_name(iter) ==
    IF iter.variant = "CassUdtIterator" /\ is_some(iter.field_name)
    THEN IF ~position_assertion(iter.position, iter.count) THEN Panic
         ELSE Status("CASS_OK", iter.field_name)
    ELSE Status("CASS_ERROR_LIB_BAD_PARAMS", None)

cass_iterator_get_user_type_field_value(iter) ==
    IF iter.variant = "CassUdtIterator" /\ is_some(iter.field_value)
    THEN IF ~position_assertion(iter.position, iter.count) THEN Panic
         ELSE Ptr(iter.field_value)
    ELSE Null

\* The metadata accessors: the entry at the position in the mapping's
\* traversal order.
meta_entry(iter, mapping) ==
    IF is_none(iter.position) THEN Null ELSE Ptr(get(mapping, unwrap(iter.position)))

cass_iterator_get_keyspace_meta(iter) ==
    IF iter.variant = "CassSchemaMetaIterator"
    THEN meta_entry(iter, iter.value.keyspaces) ELSE Null

cass_iterator_get_table_meta(iter) ==
    IF iter.variant = "CassKeyspaceMetaTableIterator"
    THEN meta_entry(iter, iter.value.tables) ELSE Null

cass_iterator_get_user_type(iter) ==
    IF iter.variant = "CassKeyspaceMetaUserTypeIterator"
    THEN meta_entry(iter, iter.value.user_defined_type_data_type) ELSE Null

cass_iterator_get_column_meta(iter) ==
    CASE iter.variant = "CassTableMetaIterator" ->
           meta_entry(iter, iter.value.columns_metadata)
      [] iter.variant = "CassViewMetaIterator" ->
           meta_entry(iter, iter.value.view_metadata.columns_metadata)
      [] OTHER -> Null

cass_iterator_get_materialized_view_meta(iter) ==
    CASE iter.variant = "CassKeyspaceMetaViewIterator" ->
           meta_entry(iter, iter.value.views)
      [] iter.variant = "CassTableMetaIterator" ->
           meta_entry(iter, iter.value.views)
      [] OTHER -> Null

\* ------------------------------------------------------------------ typed scalar accessors
\* cass_value_type: the CassValueType of the value's data type.
cass_value_type(value) ==
    CASE value.value_type.kind = "Ascii" -> "CASS_VALUE_TYPE_ASCII"
      [] value.value_type.kind = "BigInt" -> "CASS_VALUE_TYPE_BIGINT"
      [] value.value_type.kind = "Blob" -> "CASS_VALUE_TYPE_BLOB"
      [] value.value_type.kind = "Boolean" -> "CASS_VALUE_TYPE_BOOLEAN"
      [] value.value_type.kind = "Counter" -> "CASS_VALUE_TYPE_COUNTER"
      [] value.value_type.kind = "Date" -> "CASS_VALUE_TYPE_DATE"
      [] value.value_type.kind = "Decimal" -> "CASS_VALUE_TYPE_DECIMAL"
      [] value.value_type.kind = "Double" -> "CASS_VALUE_TYPE_DOUBLE"
      [] value.value_type.kind = "Duration" -> "CASS_VALUE_TYPE_DURATION"
      [] value.value_type.kind = "Float" -> "CASS_VALUE_TYPE_FLOAT"
      [] value.value_type.kind = "Inet" -> "CASS_VALUE_TYPE_INET"
      [] value.value_type.kind = "Int" -> "CASS_VALUE_TYPE_INT"
      [] value.value_type.kind = "SmallInt" -> "CASS_VALUE_TYPE_SMALL_INT"
      [] value.value_type.kind = "Text" -> "CASS_VALUE_TYPE_TEXT"
      [] value.value_type.kind = "Time" -> "CASS_VALUE_TYPE_TIME"
      [] value.value_type.kind = "Timestamp" -> "CASS_VALUE_TYPE_TIMESTAMP"
      [] value.value_type.kind = "Timeuuid" -> "CASS_VALUE_TYPE_TIMEUUID"
      [] value.value_type.kind = "TinyInt" -> "CASS_VALUE_TYPE_TINY_INT"
      [] value.value_type.kind = "Uuid" -> "CASS_VALUE_TYPE_UUID"
      [] value.value_type.kind = "Varint" -> "CASS_VALUE_TYPE_VARINT"
      [] value.value_type.kind = "List" -> "CASS_VALUE_TYPE_LIST"
      [] value.value_type.kind = "Set" -> "CASS_VALUE_TYPE_SET"
      [] value.value_type.kind = "Map" -> "CASS_VALUE_TYPE_MAP"
      [] value.value_type.kind = "Tuple" -> "CASS_VALUE_TYPE_TUPLE"
      [] value.value_type.kind = "UserDefinedType" -> "CASS_VALUE_TYPE_UDT"
      [] OTHER -> "CASS_VALUE_TYPE_UNKNOWN"

\* cass_value_is_null takes the pointer: a null pointer reads as a null value.
cass_value_is_null(value_ptr) ==
    IF is_none(value_ptr) THEN TRUE ELSE unwrap(value_ptr).is_null

ByteOk(b) == b < 128
RECURSIVE be(_)
\* The big-endian number a byte string encodes.
be(bytes) ==
    IF Len(bytes) = 0 THEN 0
    ELSE 256 * be(SubSeq(bytes, 1, Len(bytes) - 1)) + bytes[Len(bytes)]

\* DeserializeCql::deserialize for the Rust type an accessor asks for: the
\* decoded value, or an error when the bytes are not an encoding of the type.
Decoded_ok(val) == [ok |-> TRUE, val |-> val]
Decoded_err == [ok |-> FALSE, val |-> 0]
FixedWidth(frame, width) == IF Len(frame) = width THEN Decoded_ok(be(frame)) ELSE Decoded_err
deserialize(col_type, frame_slice) ==
    IF is_none(frame_slice) THEN Decoded_err
    ELSE LET frame == unwrap(frame_slice)
         IN  CASE col_type \in {"Boolean", "TinyInt"} -> FixedWidth(frame, 1)
               [] col_type = "SmallInt" -> FixedWidth(frame, 2)
               [] col_type \in {"Int", "Float", "Date"} -> FixedWidth(frame, 4)
               [] col_type \in {"BigInt", "Double"} -> FixedWidth(frame, 8)
               [] col_type = "Uuid" -> FixedWidth(frame, 16)
               [] col_type = "Inet" ->
                    IF Len(frame) \in {4, 16} THEN Decoded_ok(be(frame)) ELSE Decoded_err
               [] col_type = "Duration" ->
                    \* three variable-length integers, one byte each at least
                    IF Len(frame) >= 3 THEN Decoded_ok(be(frame)) ELSE Decoded_err
               [] col_type = "Text" ->
                    IF \A i \in 1..Len(frame) : ByteOk(frame[i])
                    THEN Decoded_ok(frame) ELSE Decoded_err
               [] OTHER -> Decoded_ok(frame)   \* Blob: any bytes

\* The instances of cass_value_get_strict_type!: the value types the
\* accessor's pattern accepts, and the column type it deserializes as.
AllValueTypes ==
    {"CASS_VALUE_TYPE_ASCII", "CASS_VALUE_TYPE_BIGINT", "CASS_VALUE_TYPE_BLOB",
     "CASS_VALUE_TYPE_BOOLEAN", "CASS_VALUE_TYPE_COUNTER", "CASS_VALUE_TYPE_DATE",
     "CASS_VALUE_TYPE_DECIMAL", "CASS_VALUE_TYPE_DOUBLE", "CASS_VALUE_TYPE_DURATION",
     "CASS_VALUE_TYPE_FLOAT", "CASS_VALUE_TYPE_INET", "CASS_VALUE_TYPE_INT",
     "CASS_VALUE_TYPE_SMALL_INT", "CASS_VALUE_TYPE_TEXT", "CASS_VALUE_TYPE_TIME",
     "CASS_VALUE_TYPE_TIMESTAMP", "CASS_VALUE_TYPE_TIMEUUID", "CASS_VALUE_TYPE_TINY_INT",
     "CASS_VALUE_TYPE_UUID", "CASS_VALUE_TYPE_VARINT", "CASS_VALUE_TYPE_VARCHAR",
     "CASS_VALUE_TYPE_LIST", "CASS_VALUE_TYPE_SET", "CASS_VALUE_TYPE_MAP",
     "CASS_VALUE_TYPE_TUPLE", "CASS_VALUE_TYPE_UDT", "CASS_VALUE_TYPE_UNKNOWN"}

StrictAccessors ==
    [cass_value_get_bool |->
        [accepts |-> {"CASS_VALUE_TYPE_BOOLEAN"}, col_type |-> "Boolean"],
     cass_value_get_float |->
        [accepts |-> {"CASS_VALUE_TYPE_FLOAT"}, col_type |-> "Float"],
     cass_value_get_double |->
        [accepts |-> {"CASS_VALUE_TYPE_DOUBLE"}, col_type |-> "Double"],
     cass_value_get_int8 |->
        [accepts |-> {"CASS_VALUE_TYPE_TINY_INT"}, col_type |-> "TinyInt"],
     cass_value_get_int16 |->
        [accepts |-> {"CASS_VALUE_TYPE_SMALL_INT"}, col_type |-> "SmallInt"],
     cass_value_get_int32 |->
        [accepts |-> {"CASS_VALUE_TYPE_INT"}, col_type |-> "Int"],
     cass_value_get_int64 |->
        [accepts |-> {"CASS_VALUE_TYPE_BIGINT", "CASS_VALUE_TYPE_COUNTER",
                      "CASS_VALUE_TYPE_TIMESTAMP", "CASS_VALUE_TYPE_TIME"},
         col_type |-> "BigInt"],
     cass_value_get_string |->
        [accepts |-> {"CASS_VALUE_TYPE_ASCII", "CASS_VALUE_TYPE_TEXT",
                      "CASS_VALUE_TYPE_VARCHAR"},
         col_type |-> "Text"],
     cass_value_get_bytes |->
        [accepts |-> AllValueTypes, col_type |-> "Blob"],
     cass_value_get_duration |->
        [accepts |-> {"CASS_VALUE_TYPE_DURATION"}, col_type |-> "Duration"],
     cass_value_get_uint32 |->
        [accepts |-> {"CASS_VALUE_TYPE_DATE"}, col_type |-> "Date"],
     cass_value_get_inet |->
        [accepts |-> {"CASS_VALUE_TYPE_INET"}, col_type |-> "Inet"],
     cass_value_get_uuid |->
        [accepts |-> {"CASS_VALUE_TYPE_UUID", "CASS_VALUE_TYPE_TIMEUUID"},
         col_type |-> "Uuid"]]

\* mutant: the declared type is tested before the null flag
cass_value_get_strict_type_type_first(name, value_ptr) ==
    IF is_none(value_ptr) THEN Status("CASS_ERROR_LIB_NULL_VALUE", None)
    ELSE IF cass_value_type(unwrap(value_ptr)) \notin StrictAccessors[name].accepts
    THEN Status("CASS_ERROR_LIB_INVALID_VALUE_TYPE", None)
    ELSE IF cass_value_is_null(value_ptr)
    THEN Status("CASS_ERROR_LIB_NULL_VALUE", None)
    ELSE LET decoded_val == deserialize(StrictAccessors[name].col_type,
                                        unwrap(value_ptr).frame_slice)
         IN  IF decoded_val.ok THEN Status("CASS_OK", Some(decoded_val.val))
             ELSE Status("CASS_ERROR_LIB_NOT_ENOUGH_DATA", None)

\* mutant: the accessor's pattern without the aliased types
cass_value_get_strict_type_no_alias(name, value_ptr) ==
    IF cass_value_is_null(value_ptr)
    THEN Status("CASS_ERROR_LIB_NULL_VALUE", None)
    ELSE IF cass_value_type(unwrap(value_ptr)) \notin
                StrictAccessors[name].accepts
                    \ {"CASS_VALUE_TYPE_COUNTER", "CASS_VALUE_TYPE_TIMEUUID"}
    THEN Status("CASS_ERROR_LIB_INVALID_VALUE_TYPE", None)
    ELSE LET decoded_val == deserialize(StrictAccessors[name].col_type,
                                        unwrap(value_ptr).frame_slice)
         IN  IF decoded_val.ok THEN Status("CASS_OK", Some(decoded_val.val))
             ELSE Status("CASS_ERROR_LIB_NOT_ENOUGH_DATA", None)

\* cass_value_get_strict_type!: what the accessor returns, and what it wrote
\* to its output slot (None: nothing).
cass_value_get_strict_type(name, value_ptr) ==
    IF cass_value_is_null(value_ptr)
    THEN Status("CASS_ERROR_LIB_NULL_VALUE", None)
    ELSE IF cass_value_type(unwrap(value_ptr)) \notin StrictAccessors[name].accepts
    THEN Status("CASS_ERROR_LIB_INVALID_VALUE_TYPE", None)
    ELSE LET decoded_val == deserialize(StrictAccessors[name].col_type,
                                        unwrap(value_ptr).frame_slice)
         IN  IF decoded_val.ok THEN Status("CASS_OK", Some(decoded_val.val))
             ELSE Status("CASS_ERROR_LIB_NOT_ENOUGH_DATA", None)

\* types::read_int: four bytes, big-endian.
read_int(bytes) ==
    IF Len(bytes) >= 4
    THEN [ok |-> TRUE, val |-> be(SubSeq(bytes, 1, 4)), rest |-> SubSeq(bytes, 5, Len(bytes))]
    ELSE [ok |-> FALSE, val |-> 0, rest |-> bytes]

\* mutant: the scale is read before the declared type is tested
cass_value_get_decimal_data_first(value_ptr) ==
    IF cass_value_is_null(value_ptr)
    THEN Status("CASS_ERROR_LIB_NULL_VALUE", None)
    ELSE LET frame_slice == unwrap(value_ptr).frame_slice
             scale_res == read_int(unwrap(frame_slice))
         IN  IF ~(is_some(frame_slice) /\ scale_res.ok)
             THEN Status("CASS_ERROR_LIB_NOT_ENOUGH_DATA", None)
             ELSE IF cass_value_type(unwrap(value_ptr)) # "CASS_VALUE_TYPE_DECIMAL"
             THEN Status("CASS_ERROR_LIB_INVALID_VALUE_TYPE", None)
             ELSE Status("CASS_OK", Some([scale |-> scale_res.val, varint |-> scale_res.rest]))

cass_value_get_decimal(value_ptr) ==
    IF cass_value_is_null(value_ptr)
    THEN Status("CASS_ERROR_LIB_NULL_VALUE", None)
    ELSE IF cass_value_type(unwrap(value_ptr)) # "CASS_VALUE_TYPE_DECIMAL"
    THEN Status("CASS_ERROR_LIB_INVALID_VALUE_TYPE", None)
    ELSE LET frame_slice == unwrap(value_ptr).frame_slice
             scale_res == read_int(unwrap(frame_slice))
         IN  IF is_some(frame_slice) /\ scale_res.ok
             THEN Status("CASS_OK", Some([scale |-> scale_res.val, varint |-> scale_res.rest]))
             ELSE Status("CASS_ERROR_LIB_NOT_ENOUGH_DATA", None)

\* ------------------------------------------------------------------ rows
\* A name is the sequence of its characters; "0xFF" stands for a byte that is
\* not UTF-8.
Quote == "\""
\* ptr_to_cstr_n: the string at the pointer, None for a null pointer or for
\* bytes that are not UTF-8.
ptr_to_cstr_n(ptr, size) ==
    IF is_none(ptr) THEN None
    ELSE IF \E i \in 1..size : unwrap(ptr)[i] = "0xFF" THEN None
    ELSE Some(SubSeq(unwrap(ptr), 1, size))

to_ascii_lowercase(c) == IF c = "A" THEN "a" ELSE IF c = "B" THEN "b" ELSE c
\* mutant: the comparison is exact
eq_exact(s1, s2) == s1 = s2
eq_ignore_ascii_case(s1, s2) ==
    /\ Len(s1) = Len(s2)
    /\ \A i \in 1..Len(s1) : to_ascii_lowercase(s1[i]) = to_ascii_lowercase(s2[i])
starts_with(s, c) == Len(s) > 0 /\ s[1] = c
ends_with(s, c) == Len(s) > 0 /\ s[Len(s)] = c
strip_prefix(s, c) == IF starts_with(s, c) THEN Some(Tail(s)) ELSE None
strip_suffix(s, c) == IF ends_with(s, c) THEN Some(SubSeq(s, 1, Len(s) - 1)) ELSE None

\* ArcFFI::cloned_from_ptr (clone_arced): Arc::increment_strong_count, one
\* atomic add on the strong count.
\* mutant: the handle is turned into an Arc without counting it
cloned_from_ptr_uncounted(a) == a
cloned_from_ptr(a) == [a EXCEPT !.strong = @ + 1]

\* mutant: a release gives up every share
free_decrement_all(a) == [a EXCEPT !.strong = 0]

\* ArcFFI::free (free_arced) drops one Arc: one atomic subtract; the holder
\* that took the count from 1 to 0 goes on to drop the payload.
free_decrement(a) == [a EXCEPT !.strong = @ - 1]

\* mutant: whoever releases drops the payload
was_last_any(a) == a.strong >= 1

was_last(a) == a.strong = 1
drop_payload(a) == [a EXCEPT !.dropped = @ + 1]

\* Weak::upgrade: the result while its strong count is positive.
upgrade(result, strong) == IF strong > 0 THEN Some(result) ELSE None

\* cass_row_get_column_by_name_n.  upgraded is what row.result.upgrade()
\* yields.
cass_row_get_column_by_name_n(row, name, name_length, upgraded) ==
    LET name_opt == ptr_to_cstr_n(name, name_length)
        name_str == unwrap(name_opt)
        quoted == starts_with(name_str, Quote) /\ ends_with(name_str, Quote)
        stripped == strip_suffix(unwrap(strip_prefix(name_str, Quote)), Quote)
        is_case_sensitive == quoted
        wanted == IF quoted THEN unwrap(stripped) ELSE name_str
        col_specs == column_specs(unwrap(upgraded).result)
        found == {i \in 1..Len(unwrap(col_specs)) :
                    \/ is_case_sensitive /\ unwrap(col_specs)[i].name = wanted
                    \/ ~is_case_sensitive
                       /\ eq_ignore_ascii_case(unwrap(col_specs)[i].name, wanted)}
        index == (CHOOSE i \in found : \A j \in found : i <= j) - 1
    IN  IF is_none(name_opt) THEN Panic
        ELSE IF is_none(upgraded) THEN Panic
        ELSE IF quoted /\ is_none(stripped) THEN Panic
        ELSE IF is_none(col_specs) \/ found = {} THEN Null
        ELSE Ptr(get(row.columns, index))

\* cass_row_get_column_by_name: the name is NUL-terminated.
cass_row_get_column_by_name(row, name, upgraded) ==
    IF is_none(ptr_to_cstr_n(name, Len(unwrap(name)))) THEN Panic
    ELSE cass_row_get_column_by_name_n(row, name, Len(unwrap(name)), upgraded)

cass_result_first_row(result) ==
    IF is_some(result.first_row) THEN Ptr(result.first_row) ELSE Null

\* QueryResult::paging_state(): the paging state of the response, if any.
paging_state(query_result) == query_result.paging_state

cass_result_has_more_pages(result) == is_some(paging_state(result.result))

\* mutant: an empty paging state is reported as no paging state
cass_result_paging_state_token_nonempty(result) ==
    LET ps == paging_state(result.result)
    IN  IF is_none(ps) \/ Len(unwrap(ps)) = 0
        THEN Status("CASS_ERROR_LIB_NO_PAGING_STATE", None)
        ELSE Status("CASS_OK", Some([paging_state |-> ps,
                                     paging_state_size |-> Len(unwrap(ps))]))

\* cass_result_paging_state_token: what is written is the address of the
\* token (here the bytes it points at; None is the null address) and its
\* length.
cass_result_paging_state_token(result) ==
    IF ~cass_result_has_more_pages(result)
    THEN Status("CASS_ERROR_LIB_NO_PAGING_STATE", None)
    ELSE LET result_paging_state == paging_state(result.result)
         IN  IF is_some(result_paging_state)
             THEN Status("CASS_OK",
                         Some([paging_state |-> result_paging_state,
                               paging_state_size |-> Len(unwrap(result_paging_state))]))
             ELSE Status("CASS_OK", Some([paging_state |-> None, paging_state_size |-> 0]))

\* write_str_to_c: the address of the string (here its characters) and its
\* length in bytes.
write_str_to_c(s) == [c_str |-> s, c_strlen |-> Len(s)]

\* cass_result_column_name.  size_t and usize are both 64 bits wide, so
\* index.try_into() succeeds for every index.
cass_result_column_name(result, index) ==
    LET col_specs == column_specs(result.result)
    IN  IF is_none(col_specs) THEN Status("CASS_ERROR_LIB_INDEX_OUT_OF_BOUNDS", None)
        ELSE IF index >= Len(unwrap(col_specs))
        THEN Status("CASS_ERROR_LIB_INDEX_OUT_OF_BOUNDS", None)
        ELSE Status("CASS_OK",
                    Some(write_str_to_c(unwrap(get(unwrap(col_specs), index)).name)))

\* mutant: the index is taken as 1-based
cass_row_get_column_one_based(row, index) ==
    IF index = 0 THEN Null ELSE Ptr(get(row.columns, index - 1))

cass_row_get_column(row, index) == Ptr(get(row.columns, index))

\* ------------------------------------------------------------------ statements
\* MaybeUnset: a bound value is Unset, or Set to a CQL value or to null.
Unset == [set |-> FALSE, value |-> None]
MaybeSet(value) == [set |-> TRUE, value |-> value]
\* vec![elem; n]
vec(elem, n) == [i \in 1..n |-> elem]

\* The Query a simple statement wraps: no page size, not traced, not
\* idempotent until the setters say so.
Query(contents) ==
    [kind |-> "Simple", contents |-> contents,
     page_size |-> None, tracing |-> FALSE, is_idempotent |-> FALSE]

\* cass_statement_new_n: the query text is unwrapped, so a null or non-UTF-8
\* query panics; the statement gets parameter_count unset bound values.
cass_statement_new_n(query, query_length, parameter_count) ==
    LET query_str == ptr_to_cstr_n(query, query_length)
    IN  IF is_none(query_str) THEN Panic
        ELSE Ptr(Some([statement |-> Query(unwrap(query_str)),
                       bound_values |-> vec(Unset, parameter_count)]))

\* What a call on a statement leaves: the statement and the status returned.
OnStatement(statement, status) == [panic |-> FALSE, status |-> status, statement |-> statement]
StatementPanic(statement) == [panic |-> TRUE, status |-> "panic", statement |-> statement]

\* cass_statement_bind_maybe_unset: bound_values[index] = value, with no
\* bounds check: indexing past the end panics.
cass_statement_bind_maybe_unset(statement, index, value) ==
    IF index >= Len(statement.bound_values) THEN StatementPanic(statement)
    ELSE OnStatement([statement EXCEPT !.bound_values[index + 1] = value], "CASS_OK")

cass_statement_bind_cql_value(statement, index, value) ==
    cass_statement_bind_maybe_unset(statement, index, MaybeSet(Some(value)))

cass_statement_bind_null(statement, index) ==
    cass_statement_bind_maybe_unset(statement, index, MaybeSet(None))

cass_statement_bind_int32(statement, index, value) ==
    cass_statement_bind_cql_value(statement, index, [cql |-> "Int", val |-> value])

\* cass_statement_bind_string_n: the text is unwrapped before the value is
\* bound, so a null or non-UTF-8 text panics.
cass_statement_bind_string_n(statement, index, value, value_length) ==
    LET value_str == ptr_to_cstr_n(value, value_length)
    IN  IF is_none(value_str) THEN StatementPanic(statement)
        ELSE cass_statement_bind_cql_value(statement, index,
                                           [cql |-> "Text", val |-> unwrap(value_str)])

\* The setters reach the inner statement only.
cass_statement_set_tracing(statement, enabled) ==
    OnStatement([statement EXCEPT !.statement.tracing = enabled], "CASS_OK")

cass_statement_set_paging_size(statement, page_size) ==
    OnStatement([statement EXCEPT !.statement.page_size =
                     IF page_size = -1 THEN None ELSE Some(page_size)], "CASS_OK")

cass_statement_set_is_idempotent(statement, is_idempotent) ==
    OnStatement([statement EXCEPT !.statement.is_idempotent = is_idempotent], "CASS_OK")

\* ------------------------------------------------------------------ prepared
\* A prepared statement: the specs of its bind variables.
get_variable_col_specs(prepared) == prepared.variable_col_specs

\* cass_prepared_bind taking over the caller's reference instead of cloning it.
cass_prepared_bind_from_ptr(prepared, a) ==
    LET bound_values_size == Len(get_variable_col_specs(prepared))
    IN  [arc |-> a,
         statement |-> [statement |-> [kind |-> "Prepared", prepared |-> prepared],
                        bound_values |-> vec(Unset, bound_values_size),
                        paging_state |-> None,
                        paging_enabled |-> FALSE,
                        request_timeout_ms |-> None,
                        exec_profile |-> None]]

\* cass_prepared_bind: the statement holds a clone of the caller's Arc, one
\* unset bound value per bind variable, and paging switched off.
cass_prepared_bind(prepared, a) ==
    LET bound_values_size == Len(get_variable_col_specs(prepared))
    IN  [arc |-> cloned_from_ptr(a),
         statement |-> [statement |-> [kind |-> "Prepared", prepared |-> prepared],
                        bound_values |-> vec(Unset, bound_values_size),
                        paging_state |-> None,
                        paging_enabled |-> FALSE,
                        request_timeout_ms |-> None,
                        exec_profile |-> None]]

\* ------------------------------------------------------------------ error results
\* CassErrorResult: [variant |-> "Query", error |-> QueryError] or one of the
\* two deserialization variants.  A QueryError is [kind |-> "DbError",
\* db |-> DbError] or another kind; a DbError is a record tagged db with the
\* fields its kind carries.
CassConsistency_from(c) ==
    CASE c = "Any" -> "CASS_CONSISTENCY_ANY"
      [] c = "One" -> "CASS_CONSISTENCY_ONE"
      [] c = "Two" -> "CASS_CONSISTENCY_TWO"
      [] c = "Three" -> "CASS_CONSISTENCY_THREE"
      [] c = "Quorum" -> "CASS_CONSISTENCY_QUORUM"
      [] c = "All" -> "CASS_CONSISTENCY_ALL"
      [] c = "LocalQuorum" -> "CASS_CONSISTENCY_LOCAL_QUORUM"
      [] c = "EachQuorum" -> "CASS_CONSISTENCY_EACH_QUORUM"
      [] c = "LocalOne" -> "CASS_CONSISTENCY_LOCAL_ONE"
      [] c = "Serial" -> "CASS_CONSISTENCY_SERIAL"
      [] c = "LocalSerial" -> "CASS_CONSISTENCY_LOCAL_SERIAL"

CassWriteType_from(c) ==
    CASE c = "Simple" -> "CASS_WRITE_TYPE_SIMPLE"
      [] c = "Batch" -> "CASS_WRITE_TYPE_BATCH"
      [] c = "UnloggedBatch" -> "CASS_WRITE_TYPE_UNLOGGED_BATCH"
      [] c = "Counter" -> "CASS_WRITE_TYPE_COUNTER"
      [] c = "BatchLog" -> "CASS_WRITE_TYPE_BATCH_LOG"
      [] c = "Cas" -> "CASS_WRITE_TYPE_CAS"
      [] c = "View" -> "CASS_WRITE_TYPE_VIEW"
      [] c = "Cdc" -> "CASS_WRITE_TYPE_CDC"
      [] OTHER -> "CASS_WRITE_TYPE_UNKNOWN"

\* The match patterns CassErrorResult::Query(QueryError::DbError(DbError::K {..}, _)).
IsDbError(error_result, k) ==
    /\ error_result.variant = "Query"
    /\ error_result.error.kind = "DbError"
    /\ error_result.error.db.db = k
DbErrorOf(error_result) == error_result.error.db

cass_error_result_consistency(error_result) ==
    CASE IsDbError(error_result, "Unavailable") ->
             CassConsistency_from(DbErrorOf(error_result).consistency)
      [] IsDbError(error_result, "ReadTimeout") ->
             CassConsistency_from(DbErrorOf(error_result).consistency)
      [] IsDbError(error_result, "WriteTimeout") ->
             CassConsistency_from(DbErrorOf(error_result).consistency)
      [] IsDbError(error_result, "ReadFailure") ->
             CassConsistency_from(DbErrorOf(error_result).consistency)
      [] IsDbError(error_result, "WriteFailure") ->
             CassConsistency_from(DbErrorOf(error_result).consistency)
      [] OTHER -> "CASS_CONSISTENCY_UNKNOWN"

cass_error_result_responses_received(error_result) ==
    CASE IsDbError(error_result, "Unavailable") -> DbErrorOf(error_result).alive
      [] IsDbError(error_result, "ReadTimeout") -> DbErrorOf(error_result).received
      [] IsDbError(error_result, "WriteTimeout") -> DbErrorOf(error_result).received
      [] IsDbError(error_result, "ReadFailure") -> DbErrorOf(error_result).received
      [] IsDbError(error_result, "WriteFailure") -> DbErrorOf(error_result).received
      [] OTHER -> -1

cass_error_result_responses_required(error_result) ==
    CASE IsDbError(error_result, "Unavailable") -> DbErrorOf(error_result).required
      [] IsDbError(error_result, "ReadTimeout") -> DbErrorOf(error_result).required
      [] IsDbError(error_result, "WriteTimeout") -> DbErrorOf(error_result).required
      [] IsDbError(error_result, "ReadFailure") -> DbErrorOf(error_result).required
      [] IsDbError(error_result, "WriteFailure") -> DbErrorOf(error_result).required
      [] OTHER -> -1

\* cass_error_result_num_failures reading the responses received of the
\* timeouts as well.
cass_error_result_num_failures_timeouts(error_result) ==
    CASE IsDbError(error_result, "ReadFailure") -> DbErrorOf(error_result).numfailures
      [] IsDbError(error_result, "WriteFailure") -> DbErrorOf(error_result).numfailures
      [] IsDbError(error_result, "ReadTimeout") -> DbErrorOf(error_result).received
      [] IsDbError(error_result, "WriteTimeout") -> DbErrorOf(error_result).received
      [] OTHER -> -1

cass_error_result_num_failures(error_result) ==
    CASE IsDbError(error_result, "ReadFailure") -> DbErrorOf(error_result).numfailures
      [] IsDbError(error_result, "WriteFailure") -> DbErrorOf(error_result).numfailures
      [] OTHER -> -1

cass_error_result_data_present(error_result) ==
    CASE IsDbError(error_result, "ReadTimeout") ->
             IF DbErrorOf(error_result).data_present THEN TRUE ELSE FALSE
      [] IsDbError(error_result, "ReadFailure") ->
             IF DbErrorOf(error_result).data_present THEN TRUE ELSE FALSE
      [] OTHER -> FALSE

cass_error_result_write_type(error_result) ==
    CASE IsDbError(error_result, "WriteTimeout") ->
             CassWriteType_from(DbErrorOf(error_result).write_type)
      [] IsDbError(error_result, "WriteFailure") ->
             CassWriteType_from(DbErrorOf(error_result).write_type)
      [] OTHER -> "CASS_WRITE_TYPE_UNKNOWN"

cass_error_result_keyspace(error_result) ==
    CASE IsDbError(error_result, "AlreadyExists") ->
             Status("CASS_OK", Some(write_str_to_c(DbErrorOf(error_result).keyspace)))
      [] IsDbError(error_result, "FunctionFailure") ->
             Status("CASS_OK", Some(write_str_to_c(DbErrorOf(error_result).keyspace)))
      [] OTHER -> Status("CASS_ERROR_LIB_INVALID_ERROR_RESULT_TYPE", None)

cass_error_result_table(error_result) ==
    CASE IsDbError(error_result, "AlreadyExists") ->
             Status("CASS_OK", Some(write_str_to_c(DbErrorOf(error_result).table)))
      [] OTHER -> Status("CASS_ERROR_LIB_INVALID_ERROR_RESULT_TYPE", None)

cass_error_result_function(error_result) ==
    CASE IsDbError(error_result, "FunctionFailure") ->
             Status("CASS_OK", Some(write_str_to_c(DbErrorOf(error_result).function)))
      [] OTHER -> Status("CASS_ERROR_LIB_INVALID_ERROR_RESULT_TYPE", None)

cass_error_num_arg_types(error_result) ==
    CASE IsDbError(error_result, "FunctionFailure") -> Len(DbErrorOf(error_result).arg_types)
      [] OTHER -> 0

\* cass_error_result_arg_type turning the last argument type away as well.
cass_error_result_arg_type_short(error_result, index) ==
    CASE IsDbError(error_result, "FunctionFailure") ->
             IF index + 1 >= Len(DbErrorOf(error_result).arg_types)
             THEN Status("CASS_ERROR_LIB_INDEX_OUT_OF_BOUNDS", None)
             ELSE Status("CASS_OK",
                         Some(write_str_to_c(DbErrorOf(error_result).arg_types[index + 1])))
      [] OTHER -> Status("CASS_ERROR_LIB_INVALID_ERROR_RESULT_TYPE", None)

cass_error_result_arg_type(error_result, index) ==
    CASE IsDbError(error_result, "FunctionFailure") ->
             IF index >= Len(DbErrorOf(error_result).arg_types)
             THEN Status("CASS_ERROR_LIB_INDEX_OUT_OF_BOUNDS", None)
             ELSE Status("CASS_OK",
                         Some(write_str_to_c(DbErrorOf(error_result).arg_types[index + 1])))
      [] OTHER -> Status("CASS_ERROR_LIB_INVALID_ERROR_RESULT_TYPE", None)

\* ------------------------------------------------------------------ releasing
\* What a release does with the pointer it is given.  free_boxed and
\* free_arced leave a null pointer alone.
free_boxed(ptr) == IF is_none(ptr) THEN {"nothing"} ELSE {"dropped"}
free_arced(ptr) == IF is_none(ptr) THEN {"nothing"} ELSE {"dropped"}
\* ArcFFI::free rebuilds the Arc from the pointer and drops it, with no test
\* for null: on a null pointer the behaviour is undefined, the drop reaches
\* through an invalid address and the process crashes, or nothing is seen to
\* happen.
ArcFFI_free(ptr) == IF is_none(ptr) THEN {"nothing", "abort"} ELSE {"dropped"}

\* ------------------------------------------------------------------ sources
\* The objects the caller holds handles to.  Each behaviour works on one
\* source: a result, a value or the schema metadata.
IntSlices == {Some(IntFrame(v)) : v \in 1..MaxVal}
\* A raw element: NULL, the empty value, or an int.
ElemSlices == {None, Some(<<>>)} \cup IntSlices
\* A raw column of a row: NULL or an int.
CellSlices == {None} \cup IntSlices
\* A raw second column, or a raw map value: NULL or the int 1.
FlagSlices == {None, Some(IntFrame(1))}

Names == <<"a", "b", "c", "d", "e", "f", "g", "h">>
\* The declared type of the i-th element or field: int, text, int, ..
TypeAt(i) == IF i % 2 = 1 THEN IntType ELSE TextType
ColSpecs(w) == [i \in 1..w |-> [name |-> Names[i], typ |-> IntType]]

QueryResults ==
    {[rows |-> None, col_specs |-> <<>>, paging_state |-> None]}
    \cup {[rows |-> Some(rs), col_specs |-> ColSpecs(w), paging_state |-> None] :
            rs \in SeqsOf([1..1 -> CellSlices], 0, MaxRows), w \in {1}}
    \cup {[rows |-> Some(rs), col_specs |-> ColSpecs(w), paging_state |-> None] :
            rs \in SeqsOf(CellSlices \X FlagSlices, 0, MaxRows), w \in {2}}

ListType == ListOf(IntType)
MapType == MapOf(IntType, TextType)
TupleType(k) == TupleOf([i \in 1..k |-> TypeAt(i)])
UdtType(k) == UserDefinedType([i \in 1..k |-> <<Names[i], TypeAt(i)>>])

\* Flattens <<k1, v1>>, <<k2, v2>>, .. to k1, v1, k2, v2, ..
Flatten(pairs) == [i \in 1..(2 * Len(pairs)) |-> pairs[(i + 1) \div 2][2 - (i % 2)]]

ListValues ==
    {unwrap(decode_value(RawValue(ListType, s), ListType)) :
        s \in {None} \cup {Some(<<Len(es)>> \o es) : es \in SeqsOf(ElemSlices, 0, MaxLen)}}

MapValues ==
    {unwrap(decode_value(RawValue(MapType, s), MapType)) :
        s \in {None} \cup {Some(<<Len(ps)>> \o Flatten(ps)) :
                             ps \in SeqsOf(IntSlices \X FlagSlices, 0, MaxLen)}}

TupleValues ==
    UNION {{unwrap(decode_value(RawValue(TupleType(k), s), TupleType(k))) :
              s \in {None} \cup {Some(es) : es \in SeqsOf(ElemSlices, k, k)}} :
           k \in 1..MaxLen}

\* A record frame holds the first m of the k declared fields, 1 <= m <= k.
UdtValues ==
    UNION {{unwrap(decode_value(RawValue(UdtType(k), s), UdtType(k))) :
              s \in {None} \cup {Some(es) : es \in SeqsOf(ElemSlices, 1, k)}} :
           k \in 1..MaxLen}

IntValues == {unwrap(decode_value(RawValue(IntType, s), IntType)) : s \in CellSlices}

\* The schema metadata: every mapping as the sequence of its entries.
Entries(kind, n) == [i \in 1..n |-> [kind |-> kind, index |-> i]]
SchemaMeta(a, b) ==
    [schema |-> [keyspaces |-> Entries("keyspace", a)],
     keyspace |-> [tables |-> Entries("table", b),
                   views |-> Entries("view", a),
                   user_defined_type_data_type |-> Entries("user_type", b)],
     table |-> [columns_metadata |-> Entries("column", a),
                views |-> Entries("view", b)],
     view |-> [view_metadata |-> [columns_metadata |-> Entries("column", b)]]]

\* ------------------------------------------------------------------ state
VARIABLES
    cassResult,   \* Option: the CassResult the caller holds
    cassValue,    \* Option: the CassValue the caller holds
    meta,         \* Option: the schema metadata the caller holds
    rawValue,     \* Option: the raw column value decode_value is given
    rowPtr,       \* Option: the CassRow pointer the caller holds
    arc,          \* the Arc of the CassResult: strong count, payload drops
    threads,      \* where each holder of the Arc stands (0: the caller's handle)
    twin,         \* Option: a second iterator the caller holds, with its returns
    cassPrepared, \* Option: the CassPrepared the caller holds
    cassStatement,\* per slot, Option: a CassStatement the caller holds
    cassError,    \* Option: the CassErrorResult the caller holds
    iterator,     \* Option: the CassIterator the caller holds
    ctor,         \* the iterator constructor last called ("": none)
    rets,         \* what cass_iterator_next returned on it, call by call
                  \* (for a statement: the parameter count it was made with)
    out,          \* Option: the last accessor call on it and what it yielded
    aborted       \* a call panicked

vars == <<cassResult, cassValue, meta, rawValue, rowPtr, arc, threads, twin,
          cassPrepared, cassStatement, cassError,
          iterator, ctor, rets, out, aborted>>
bindings == <<cassPrepared, cassStatement, cassError>>
sources == <<cassResult, cassValue, meta, rawValue, rowPtr, arc, threads, twin, bindings>>

\* No statement is held in any slot.
NoStatements == [i \in 1..MaxIters |-> None]

\* One handle to the result, held by the caller; no row pointer taken.
ArcNew == [strong |-> 1, dropped |-> 0]
OneHolder ==
    /\ rowPtr = None /\ arc = ArcNew /\ threads = [h \in 0..0 |-> "held"]

NoIterator ==
    /\ iterator = None /\ ctor = "" /\ rets = <<>> /\ out = None /\ aborted = FALSE
    /\ OneHolder /\ twin = None
    /\ cassPrepared = None /\ cassStatement = NoStatements /\ cassError = None

InitResult ==
    /\ cassResult \in {Some(CassResultNew(q)) : q \in QueryResults}
    /\ cassValue = None /\ meta = None /\ rawValue = None /\ NoIterator

InitValue ==
    /\ \/ cassValue \in {Some(v) : v \in ListValues}
       \/ cassValue \in {Some(v) : v \in MapValues}
       \/ cassValue \in {Some(v) : v \in TupleValues}
       \/ cassValue \in {Some(v) : v \in UdtValues}
       \/ cassValue \in {Some(v) : v \in IntValues}
    /\ cassResult = None /\ meta = None /\ rawValue = None /\ NoIterator

InitMeta ==
    /\ meta \in {Some(SchemaMeta(a, b)) : a, b \in 0..MaxLen}
    /\ cassResult = None /\ cassValue = None /\ rawValue = None /\ NoIterator

Init == InitResult \/ InitValue \/ InitMeta

\* A constructor call: the caller holds what it returned, an iterator or the
\* null pointer.
Create(name, ptr) ==
    /\ ~aborted /\ iterator = None
    /\ iterator' = ptr
    /\ ctor' = name
    /\ UNCHANGED <<sources, rets, out, aborted>>

FromResult ==
    /\ is_some(cassResult)
    /\ Create("cass_iterator_from_result", cass_iterator_from_result(unwrap(cassResult)))

\* The row is the one cass_result_first_row returns.
FromRow ==
    /\ is_some(cassResult) /\ is_some(unwrap(cassResult).first_row)
    /\ Create("cass_iterator_from_row",
              cass_iterator_from_row(unwrap(unwrap(cassResult).first_row)))

FromCollection ==
    /\ is_some(cassValue)
    /\ Create("cass_iterator_from_collection", cass_iterator_from_collection(unwrap(cassValue)))

FromTuple ==
    /\ is_some(cassValue)
    /\ Create("cass_iterator_from_tuple", cass_iterator_from_tuple(unwrap(cassValue)))

FromMap ==
    /\ is_some(cassValue)
    /\ Create("cass_iterator_from_map", cass_iterator_from_map(unwrap(cassValue)))

FieldsFromUserType ==
    /\ is_some(cassValue)
    /\ Create("cass_iterator_fields_from_user_type",
              cass_iterator_fields_from_user_type(unwrap(cassValue)))

KeyspacesFromSchemaMeta ==
    /\ is_some(meta)
    /\ Create("cass_iterator_keyspaces_from_schema_meta",
              cass_iterator_keyspaces_from_schema_meta(unwrap(meta).schema))

TablesFromKeyspaceMeta ==
    /\ is_some(meta)
    /\ Create("cass_iterator_tables_from_keyspace_meta",
              cass_iterator_tables_from_keyspace_meta(unwrap(meta).keyspace))

ViewsFromKeyspaceMeta ==
    /\ is_some(meta)
    /\ Create("cass_iterator_materialized_views_from_keyspace_meta",
              cass_iterator_materialized_views_from_keyspace_meta(unwrap(meta).keyspace))

UserTypesFromKeyspaceMeta ==
    /\ is_some(meta)
    /\ Create("cass_iterator_user_types_from_keyspace_meta",
              cass_iterator_user_types_from_keyspace_meta(unwrap(meta).keyspace))

ColumnsFromTableMeta ==
    /\ is_some(meta)
    /\ Create("cass_iterator_columns_from_table_meta",
              cass_iterator_columns_from_table_meta(unwrap(meta).table))

ViewsFromTableMeta ==
    /\ is_some(meta)
    /\ Create("cass_iterator_materialized_views_from_table_meta",
              cass_iterator_materialized_views_from_table_meta(unwrap(meta).table))

ColumnsFromViewMeta ==
    /\ is_some(meta)
    /\ Create("cass_iterator_columns_from_materialized_view_meta",
              cass_iterator_columns_from_materialized_view_meta(unwrap(meta).view))

\* The size of the source the iterator walks: the rows of the result, the
\* columns of the row, or the count the constructor stored.
SourceSize(iter) ==
    CASE iter.variant = "CassResultIterator" ->
           LET n == rows_num(unwrap(iter.result).result)
           IN  IF is_some(n) THEN unwrap(n) ELSE 0
      [] iter.variant = "CassRowIterator" -> Len(unwrap(iter.row).columns)
      [] OTHER -> iter.count

IteratorNext ==
    /\ ~aborted /\ is_some(iterator)
    /\ Len(rets) < SourceSize(unwrap(iterator)) + ExtraCalls
    /\ LET r == cass_iterator_next(unwrap(iterator))
       IN  IF r.panic
           THEN aborted' = TRUE /\ UNCHANGED <<iterator, rets, out>>
           ELSE /\ iterator' = Some(r.iter)
                /\ rets' = Append(rets, r.ret)
                /\ out' = None
                /\ UNCHANGED aborted
    /\ UNCHANGED <<sources, ctor>>

IteratorFree ==
    /\ ~aborted /\ is_some(iterator)
    /\ iterator' = None /\ ctor' = "" /\ rets' = <<>> /\ out' = None
    /\ UNCHANGED <<sources, aborted>>

\* An accessor call reads the iterator and changes nothing of it.
Read(name, res) ==
    /\ ~aborted /\ is_some(iterator)
    /\ out' = Some([acc |-> name, res |-> res])
    /\ aborted' = res.panic
    /\ UNCHANGED <<sources, iterator, ctor, rets>>

GetRow == Read("cass_iterator_get_row", cass_iterator_get_row(unwrap(iterator)))
GetColumn == Read("cass_iterator_get_column", cass_iterator_get_column(unwrap(iterator)))
GetValue == Read("cass_iterator_get_value", cass_iterator_get_value(unwrap(iterator)))
GetMapKey == Read("cass_iterator_get_map_key", cass_iterator_get_map_key(unwrap(iterator)))
GetMapValue ==
    Read("cass_iterator_get_map_value", cass_iterator_get_map_value(unwrap(iterator)))
GetUserTypeFieldName ==
    Read("cass_iterator_get_user_type_field_name",
         cass_iterator_get_user_type_field_name(unwrap(iterator)))
GetUserTypeFieldValue ==
    Read("cass_iterator_get_user_type_field_value",
         cass_iterator_get_user_type_field_value(unwrap(iterator)))
GetKeyspaceMeta ==
    Read("cass_iterator_get_keyspace_meta", cass_iterator_get_keyspace_meta(unwrap(iterator)))
GetTableMeta ==
    Read("cass_iterator_get_table_meta", cass_iterator_get_table_meta(unwrap(iterator)))
GetUserType ==
    Read("cass_iterator_get_user_type", cass_iterator_get_user_type(unwrap(iterator)))
GetColumnMeta ==
    Read("cass_iterator_get_column_meta", cass_iterator_get_column_meta(unwrap(iterator)))
GetMaterializedViewMeta ==
    Read("cass_iterator_get_materialized_view_meta",
         cass_iterator_get_materialized_view_meta(unwrap(iterator)))

Next ==
    \/ FromResult \/ FromRow \/ FromCollection \/ FromTuple \/ FromMap
    \/ FieldsFromUserType
    \/ KeyspacesFromSchemaMeta \/ TablesFromKeyspaceMeta \/ ViewsFromKeyspaceMeta
    \/ UserTypesFromKeyspaceMeta \/ ColumnsFromTableMeta \/ ViewsFromTableMeta
    \/ ColumnsFromViewMeta
    \/ IteratorNext \/ IteratorFree
    \/ GetRow \/ GetColumn \/ GetValue \/ GetMapKey \/ GetMapValue
    \/ GetUserTypeFieldName \/ GetUserTypeFieldValue
    \/ GetKeyspaceMeta \/ GetTableMeta \/ GetUserType \/ GetColumnMeta
    \/ GetMaterializedViewMeta

Spec == Init /\ [][Next]_vars

\* ------------------------------------------------------------------ typed reads
\* The second machine: the caller holds a Value pointer (None: the null
\* pointer) and calls the typed scalar accessors on it.
PrimKinds ==
    {"Ascii", "BigInt", "Blob", "Boolean", "Counter", "Date", "Decimal", "Double",
     "Duration", "Float", "Inet", "Int", "SmallInt", "Text", "Time", "Timestamp",
     "Timeuuid", "TinyInt", "Uuid", "Varint"}
ByteLens == {0, 1, 2, 3, 4, 8, 16}
\* Byte strings of the lengths the wire types use: zeros ending in a payload
\* byte, and one that is no UTF-8.
ByteFrames ==
    {[i \in 1..n |-> IF i = n THEN v ELSE 0] : n \in ByteLens, v \in 1..MaxVal}
    \cup {<<255>>}
ScalarValues ==
    {unwrap(decode_value(RawValue(Prim(k), s), Prim(k))) :
        k \in PrimKinds, s \in {None} \cup {Some(f) : f \in ByteFrames}}

InitTyped ==
    /\ \/ cassValue \in {Some(v) : v \in ScalarValues}
       \/ cassValue \in {Some(v) : v \in ListValues}
       \/ cassValue \in {Some(v) : v \in MapValues}
       \/ cassValue \in {Some(v) : v \in TupleValues}
       \/ cassValue \in {Some(v) : v \in UdtValues}
       \/ cassValue = NullPtr
    /\ cassResult = None /\ meta = None /\ rawValue = None /\ NoIterator

TypedRead(name, res) ==
    /\ out' = Some([acc |-> name, res |-> res])
    /\ UNCHANGED <<sources, iterator, ctor, rets, aborted>>

StrictRead(name) == TypedRead(name, cass_value_get_strict_type(name, cassValue))

ValueGetBool == StrictRead("cass_value_get_bool")
ValueGetFloat == StrictRead("cass_value_get_float")
ValueGetDouble == StrictRead("cass_value_get_double")
ValueGetInt8 == StrictRead("cass_value_get_int8")
ValueGetInt16 == StrictRead("cass_value_get_int16")
ValueGetInt32 == StrictRead("cass_value_get_int32")
ValueGetInt64 == StrictRead("cass_value_get_int64")
ValueGetString == StrictRead("cass_value_get_string")
ValueGetBytes == StrictRead("cass_value_get_bytes")
ValueGetDuration == StrictRead("cass_value_get_duration")
ValueGetUint32 == StrictRead("cass_value_get_uint32")
ValueGetInet == StrictRead("cass_value_get_inet")
ValueGetUuid == StrictRead("cass_value_get_uuid")
ValueGetDecimal == TypedRead("cass_value_get_decimal", cass_value_get_decimal(cassValue))

NextTyped ==
    \/ ValueGetBool \/ ValueGetFloat \/ ValueGetDouble
    \/ ValueGetInt8 \/ ValueGetInt16 \/ ValueGetInt32 \/ ValueGetInt64
    \/ ValueGetString \/ ValueGetBytes \/ ValueGetDuration \/ ValueGetUint32
    \/ ValueGetInet \/ ValueGetUuid \/ ValueGetDecimal

SpecTyped == InitTyped /\ [][NextTyped]_vars

\* ------------------------------------------------------------------ decoding
\* The third machine: a raw column value (a declared type and a span that is
\* absent, empty, or an encoding of the type; for a collection also a span
\* whose length prefix does not parse) is decoded by decode_value, and the
\* caller then asks for a child iterator over the Value it got.
SpanOf(frames) == {None, Some(<<>>)} \cup {Some(f) : f \in frames}
PrimFrames == {f \in ByteFrames : Len(f) > 0}
SeqFrames == {<<-1>>} \cup {<<Len(es)>> \o es : es \in SeqsOf(ElemSlices, 0, MaxLen)}
MapFrames ==
    {<<-1>>} \cup {<<Len(ps)>> \o Flatten(ps) : ps \in SeqsOf(IntSlices \X FlagSlices, 0, MaxLen)}

InitDecode ==
    /\ \/ rawValue \in {Some(RawValue(Prim(k), s)) : k \in PrimKinds, s \in SpanOf(PrimFrames)}
       \/ rawValue \in {Some(RawValue(t, s)) :
                            t \in {ListType, SetOf(IntType)}, s \in SpanOf(SeqFrames)}
       \/ rawValue \in {Some(RawValue(MapType, s)) : s \in SpanOf(MapFrames)}
       \/ \E k \in 1..MaxLen :
              rawValue \in {Some(RawValue(TupleType(k), s)) :
                               s \in SpanOf(SeqsOf(ElemSlices, k, k))}
       \/ \E k \in 1..MaxLen :
              rawValue \in {Some(RawValue(UdtType(k), s)) :
                               s \in SpanOf(SeqsOf(ElemSlices, 1, k))}
    /\ cassResult = None /\ cassValue = None /\ meta = None /\ NoIterator

\* decode_value on the raw value; the caller holds the Value when one is
\* produced.
DecodeValue ==
    /\ is_some(rawValue) /\ out = None
    /\ LET decoded == decode_value(unwrap(rawValue), unwrap(rawValue).spec)
       IN  /\ cassValue' = decoded
           /\ out' = Some([acc |-> "decode_value", res |-> is_some(decoded)])
    /\ UNCHANGED <<cassResult, meta, rawValue, rowPtr, arc, threads, twin, bindings,
                   iterator, ctor, rets, aborted>>

NextDecode ==
    \/ DecodeValue
    \/ FromCollection \/ FromTuple \/ FromMap \/ FieldsFromUserType

SpecDecode == InitDecode /\ [][NextDecode]_vars

\* ------------------------------------------------------------------ ownership
\* The steps of the calls that take and give up a share of the result.  Each
\* step is one atomic operation on the Arc; steps of calls made by different
\* threads interleave.
Step(h, pc) == threads' = [threads EXCEPT ![h] = pc]

\* cass_result_free: the caller's handle is dropped.
ResultFree ==
    /\ threads[0] = "held"
    /\ arc' = free_decrement(arc)
    /\ Step(0, IF was_last(arc) THEN "last" ELSE "released")
    /\ UNCHANGED <<cassResult, cassValue, meta, rawValue, rowPtr, twin, bindings,
                   iterator, ctor, rets, out, aborted>>

\* cass_iterator_from_result, first step: clone_arced on the caller's handle.
FromResultClone(i) ==
    /\ threads[0] = "held" /\ threads[i] = "none"
    /\ arc' = cloned_from_ptr(arc)
    /\ Step(i, "cloned")
    /\ UNCHANGED <<cassResult, cassValue, meta, rawValue, rowPtr, twin, bindings,
                   iterator, ctor, rets, out, aborted>>

\* cass_iterator_from_result, second step: the iterator that owns the clone
\* is boxed and returned.
FromResultReturn(i) ==
    /\ threads[i] = "cloned"
    /\ Step(i, "held")
    /\ UNCHANGED <<cassResult, cassValue, meta, rawValue, rowPtr, arc, twin, bindings,
                   iterator, ctor, rets, out, aborted>>

\* cass_iterator_free on a result iterator: its Arc is dropped.
ResultIteratorFree(i) ==
    /\ threads[i] = "held"
    /\ arc' = free_decrement(arc)
    /\ Step(i, IF was_last(arc) THEN "last" ELSE "released")
    /\ UNCHANGED <<cassResult, cassValue, meta, rawValue, rowPtr, twin, bindings,
                   iterator, ctor, rets, out, aborted>>

\* The holder that released last drops the CassResult.
DropPayload(h) ==
    /\ threads[h] = "last"
    /\ arc' = drop_payload(arc)
    /\ Step(h, "released")
    /\ UNCHANGED <<cassResult, cassValue, meta, rawValue, rowPtr, twin, bindings,
                   iterator, ctor, rets, out, aborted>>

\* The fourth machine: one result, the caller's handle and up to MaxIters
\* result iterators made and freed by different threads.
InitArc ==
    /\ cassResult \in {Some(CassResultNew(q)) :
                         q \in {[rows |-> None, col_specs |-> <<>>, paging_state |-> None],
                                [rows |-> Some(<<<<Some(IntFrame(1))>>>>),
                                 col_specs |-> <<[name |-> <<"a">>, typ |-> IntType]>>,
                                 paging_state |-> None]}}
    /\ cassValue = None /\ meta = None /\ rawValue = None /\ rowPtr = None
    /\ arc = ArcNew /\ twin = None
    /\ cassPrepared = None /\ cassStatement = NoStatements /\ cassError = None
    /\ threads = [h \in 0..MaxIters |-> IF h = 0 THEN "held" ELSE "none"]
    /\ iterator = None /\ ctor = "" /\ rets = <<>> /\ out = None /\ aborted = FALSE

NextArc ==
    \/ ResultFree
    \/ \E i \in 1..MaxIters : FromResultClone(i) \/ FromResultReturn(i) \/ ResultIteratorFree(i)
    \/ \E h \in 0..MaxIters : DropPayload(h)

SpecArc == InitArc /\ [][NextArc]_vars

\* ------------------------------------------------------------------ lookups by name
\* The fifth machine: a result with one row, whose columns hold 1, 2, ..; the
\* caller takes the first row, looks columns up by name, and frees the
\* result.
NameChars == {"a", "A", Quote, "0xFF"}
NameStrings == SeqsOf(NameChars, 0, MaxName)
ColumnNames == {<<"a">>, <<"A">>, <<"b">>}
\* The paging state of a response: none (the last page), or its bytes.
PagingStates == {None, Some(<<>>), Some(<<1, 2>>)}
NamedResults ==
    {[rows |-> Some(<<[i \in 1..Len(ns) |-> Some(IntFrame(i))]>>),
      col_specs |-> [i \in 1..Len(ns) |-> [name |-> ns[i], typ |-> IntType]],
      paging_state |-> ps] :
        ns \in SeqsOf(ColumnNames, 1, MaxLen), ps \in PagingStates}
\* A response that is not a rows response: no column specs, no first row.
VoidResults == {[rows |-> None, col_specs |-> <<>>, paging_state |-> ps] : ps \in PagingStates}
\* The indexes a caller passes: below, at and above every column count.
Indexes == 0..(MaxLen + 1)

InitRow ==
    /\ cassResult \in {Some(CassResultNew(q)) : q \in NamedResults \cup VoidResults}
    /\ cassValue = None /\ meta = None /\ rawValue = None
    /\ NoIterator

ResultFirstRow ==
    /\ threads[0] = "held" /\ rowPtr = None
    /\ rowPtr' = cass_result_first_row(unwrap(cassResult)).ptr
    /\ UNCHANGED <<cassResult, cassValue, meta, rawValue, arc, threads, twin, bindings,
                   iterator, ctor, rets, out, aborted>>

\* A lookup through the row pointer, one in a behaviour.  While the CassResult is not dropped the
\* row is alive and its weak reference upgrades by the strong count; once it
\* is dropped the row is freed memory, and the read of it finds the weak
\* reference either dead or as it was.
Upgrades ==
    IF arc.dropped = 0 THEN {upgrade(unwrap(cassResult), arc.strong)}
    ELSE {None, cassResult}

Lookup(acc, name, res) ==
    /\ out' = Some([acc |-> acc, arg |-> name, strong |-> arc.strong, res |-> res])
    /\ aborted' = res.panic
    /\ UNCHANGED <<sources, iterator, ctor, rets>>

RowGetColumnByNameN ==
    /\ ~aborted /\ is_some(rowPtr) /\ out = None
    /\ \E name \in NameStrings, upgraded \in Upgrades :
          Lookup("cass_row_get_column_by_name_n", name,
                 cass_row_get_column_by_name_n(unwrap(rowPtr), Some(name), Len(name),
                                               upgraded))

RowGetColumnByName ==
    /\ ~aborted /\ is_some(rowPtr) /\ out = None
    /\ \E name \in NameStrings, upgraded \in Upgrades :
          Lookup("cass_row_get_column_by_name", name,
                 cass_row_get_column_by_name(unwrap(rowPtr), Some(name), upgraded))

\* The calls below are made while the caller holds its handle to the result.
ResultPagingStateToken ==
    /\ ~aborted /\ threads[0] = "held" /\ out = None
    /\ Lookup("cass_result_paging_state_token", <<>>,
              cass_result_paging_state_token(unwrap(cassResult)))

ResultColumnName ==
    /\ ~aborted /\ threads[0] = "held" /\ out = None
    /\ \E index \in Indexes :
          Lookup("cass_result_column_name", index,
                 cass_result_column_name(unwrap(cassResult), index))

RowGetColumn ==
    /\ ~aborted /\ threads[0] = "held" /\ is_some(rowPtr) /\ out = None
    /\ \E index \in Indexes :
          Lookup("cass_row_get_column", index,
                 cass_row_get_column(unwrap(rowPtr), index))

NextRow ==
    \/ ResultFirstRow \/ RowGetColumnByNameN \/ RowGetColumnByName
    \/ ResultPagingStateToken \/ ResultColumnName \/ RowGetColumn
    \/ ResultFree \/ DropPayload(0)

SpecRow == InitRow /\ [][NextRow]_vars

\* ------------------------------------------------------------------ two iterators
\* The sixth machine: the caller holds a second iterator next to the first,
\* either a sibling made by the same constructor over the same source or a
\* child made from what the first currently exposes, and advances the two in
\* any order.  The counting of the result's handles is left to the ownership
\* machine.
InnerSlices == {None, Some(<<0>>), Some(<<1, Some(IntFrame(1))>>)}
NestedListType == ListOf(ListType)
NestedMapType == MapOf(IntType, ListType)
NestedListValues ==
    {unwrap(decode_value(RawValue(NestedListType, Some(<<Len(es)>> \o es)), NestedListType)) :
        es \in SeqsOf(InnerSlices, 1, MaxLen)}
NestedMapValues ==
    {unwrap(decode_value(RawValue(NestedMapType,
                                  Some(<<Len(ps)>> \o Flatten(ps))), NestedMapType)) :
        ps \in SeqsOf({Some(IntFrame(1))} \X InnerSlices, 1, MaxLen)}
RowsResults ==
    {[rows |-> Some(rs), col_specs |-> ColSpecs(1), paging_state |-> None] :
        rs \in SeqsOf([1..1 -> CellSlices], 1, MaxRows)}

InitTwo ==
    /\ \/ /\ cassResult \in {Some(CassResultNew(q)) : q \in RowsResults}
          /\ cassValue = None
       \/ /\ cassValue \in {Some(v) : v \in NestedListValues \cup NestedMapValues}
          /\ cassResult = None
    /\ meta = None /\ rawValue = None /\ NoIterator

\* What the constructor that made the first iterator returns when it is
\* called again on the same source.
FreshIterator ==
    CASE ctor = "cass_iterator_from_result" -> cass_iterator_from_result(unwrap(cassResult))
      [] ctor = "cass_iterator_from_collection" ->
           cass_iterator_from_collection(unwrap(cassValue))
      [] ctor = "cass_iterator_from_map" -> cass_iterator_from_map(unwrap(cassValue))
      [] ctor = "cass_iterator_from_tuple" -> cass_iterator_from_tuple(unwrap(cassValue))
      [] ctor = "cass_iterator_fields_from_user_type" ->
           cass_iterator_fields_from_user_type(unwrap(cassValue))
      [] OTHER -> NullPtr

\* The iterators the child constructors return on what the iterator
\* currently exposes: a row iterator on the row of a result iterator, a
\* collection iterator on the element of a list or on the value of a map pair.
Children(iter) ==
    CASE iter.variant = "CassResultIterator" ->
           LET r == cass_iterator_get_row(iter)
           IN  IF is_some(r.ptr) THEN {cass_iterator_from_row(unwrap(r.ptr))} ELSE {}
      [] iter.variant = "SequenceIterator" ->
           LET v == cass_iterator_get_value(iter)
           IN  IF is_some(v.ptr) THEN {cass_iterator_from_collection(unwrap(v.ptr))} ELSE {}
      [] iter.variant = "CassMapIterator" /\ is_some(iter.position) ->
           LET v == cass_iterator_get_map_value(iter)
           IN  IF is_some(v.ptr) THEN {cass_iterator_from_collection(unwrap(v.ptr))} ELSE {}
      [] OTHER -> {}

Second(role, ptr) ==
    /\ ~aborted /\ is_some(iterator) /\ twin = None
    /\ is_some(ptr)
    /\ twin' = Some([role |-> role, iter |-> unwrap(ptr), rets |-> <<>>])
    /\ UNCHANGED <<cassResult, cassValue, meta, rawValue, rowPtr, arc, threads, bindings,
                   iterator, ctor, rets, out, aborted>>

SiblingCreate ==
    /\ is_some(iterator)
    /\ Second("sibling", FreshIterator)

ChildCreate ==
    /\ is_some(iterator)
    /\ \E child \in Children(unwrap(iterator)) : Second("child", child)

\* cass_iterator_next on the second iterator.
TwinNext ==
    /\ ~aborted /\ is_some(twin)
    /\ Len(unwrap(twin).rets) < SourceSize(unwrap(twin).iter) + ExtraCalls
    /\ LET r == next_beside(unwrap(twin).iter, iterator)
       IN  IF r.call.panic
           THEN aborted' = TRUE /\ UNCHANGED <<twin, iterator>>
           ELSE /\ twin' = Some([unwrap(twin) EXCEPT !.iter = r.call.iter,
                                                      !.rets = Append(@, r.call.ret)])
                /\ iterator' = r.other
                /\ UNCHANGED aborted
    /\ UNCHANGED <<cassResult, cassValue, meta, rawValue, rowPtr, arc, threads, bindings,
                   ctor, rets, out>>

\* cass_iterator_free on the second iterator.
TwinFree ==
    /\ ~aborted /\ is_some(twin)
    /\ twin' = None
    /\ UNCHANGED <<cassResult, cassValue, meta, rawValue, rowPtr, arc, threads, bindings,
                   iterator, ctor, rets, out, aborted>>

NextTwo ==
    \/ FromResult \/ FromCollection \/ FromMap
    \/ IteratorNext
    \/ SiblingCreate \/ ChildCreate \/ TwinNext \/ TwinFree

SpecTwo == InitTwo /\ [][NextTwo]_vars

\* ------------------------------------------------------------------ statements and prepared
\* The seventh machine: the caller holds a prepared statement and binds
\* statements from it, or makes a simple statement, or holds an error result.
\* Statements are bound, configured and freed; the prepared statement is
\* shared between the caller's handle and the statements bound from it.
QueryTexts == {None, Some(<<"a">>), Some(<<"0xFF">>)}
Prepareds == {[variable_col_specs |-> ColSpecs(n)] : n \in 0..MaxLen}
\* The indexes a bind is given: below and at the largest parameter count.
BindIndexes == 0..MaxLen
PageSizes == {-1, 1}

\* The number of bound values the first statement was made with.
Made ==
    IF is_some(cassPrepared) THEN Len(get_variable_col_specs(unwrap(cassPrepared)))
    ELSE rets[1]

\* cass_statement_new_n: the caller makes a simple statement.
StatementNewN ==
    /\ is_none(cassPrepared) /\ is_none(cassError) /\ ctor = "" /\ ~aborted
    /\ \E query \in QueryTexts, parameter_count \in 0..MaxLen :
         LET query_length == IF is_none(query) THEN 0 ELSE Len(unwrap(query))
             res == cass_statement_new_n(query, query_length, parameter_count)
         IN  /\ cassStatement' = [cassStatement EXCEPT ![1] = res.ptr]
             /\ out' = Some([acc |-> "cass_statement_new_n", arg |-> parameter_count,
                             before |-> None, res |-> res])
             /\ rets' = <<parameter_count>>
             /\ aborted' = res.panic
    /\ ctor' = "cass_statement_new_n"
    /\ UNCHANGED <<cassResult, cassValue, meta, rawValue, rowPtr, arc, threads, twin,
                   cassPrepared, cassError, iterator>>

\* A call on the first statement: what it leaves and what it returned.
OnFirst(acc, arg, res) ==
    /\ cassStatement' = [cassStatement EXCEPT ![1] = Some(res.statement)]
    /\ out' = Some([acc |-> acc, arg |-> arg, before |-> cassStatement[1], res |-> res])
    /\ aborted' = res.panic
    /\ UNCHANGED <<cassResult, cassValue, meta, rawValue, rowPtr, arc, threads, twin,
                   cassPrepared, cassError, iterator, ctor, rets>>

First == unwrap(cassStatement[1])
\* The caller holds the simple statement it made.
HasFirst == ctor = "cass_statement_new_n" /\ is_some(cassStatement[1]) /\ ~aborted

StatementBindNull ==
    /\ HasFirst
    /\ \E index \in BindIndexes :
         OnFirst("cass_statement_bind_null", index, cass_statement_bind_null(First, index))

StatementBindInt32 ==
    /\ HasFirst
    /\ \E index \in BindIndexes, value \in {0, MaxVal} :
         OnFirst("cass_statement_bind_int32", index,
                 cass_statement_bind_int32(First, index, value))

StatementBindStringN ==
    /\ HasFirst
    /\ \E index \in BindIndexes, value \in QueryTexts :
         LET value_length == IF is_none(value) THEN 0 ELSE Len(unwrap(value))
         IN  OnFirst("cass_statement_bind_string_n", index,
                     cass_statement_bind_string_n(First, index, value, value_length))

StatementSetTracing ==
    /\ HasFirst /\ First.statement.kind = "Simple"
    /\ \E enabled \in BOOLEAN :
         OnFirst("cass_statement_set_tracing", enabled,
                 cass_statement_set_tracing(First, enabled))

StatementSetPagingSize ==
    /\ HasFirst /\ First.statement.kind = "Simple"
    /\ \E page_size \in PageSizes :
         OnFirst("cass_statement_set_paging_size", page_size,
                 cass_statement_set_paging_size(First, page_size))

StatementSetIsIdempotent ==
    /\ HasFirst /\ First.statement.kind = "Simple"
    /\ \E is_idempotent \in BOOLEAN :
         OnFirst("cass_statement_set_is_idempotent", is_idempotent,
                 cass_statement_set_is_idempotent(First, is_idempotent))

\* cass_prepared_bind: the statement in slot i is bound from the prepared
\* statement and shares it.
PreparedBind(i) ==
    /\ is_some(cassPrepared) /\ threads[0] = "held" /\ ~aborted
    /\ threads[i] = "none" /\ is_none(cassStatement[i])
    /\ LET bound == cass_prepared_bind(unwrap(cassPrepared), arc)
       IN  /\ arc' = bound.arc
           /\ cassStatement' = [cassStatement EXCEPT ![i] = Some(bound.statement)]
    /\ Step(i, "held")
    /\ UNCHANGED <<cassResult, cassValue, meta, rawValue, rowPtr, twin,
                   cassPrepared, cassError, iterator, ctor, rets, out, aborted>>

\* cass_statement_free: the statement is dropped, and with it its share of
\* the prepared statement, if it has one.
StatementFree(i) ==
    /\ is_some(cassStatement[i]) /\ ~aborted
    /\ cassStatement' = [cassStatement EXCEPT ![i] = None]
    /\ IF unwrap(cassStatement[i]).statement.kind = "Prepared"
       THEN /\ arc' = free_decrement(arc)
            /\ Step(i, IF was_last(arc) THEN "last" ELSE "released")
       ELSE UNCHANGED <<arc, threads>>
    /\ UNCHANGED <<cassResult, cassValue, meta, rawValue, rowPtr, twin,
                   cassPrepared, cassError, iterator, ctor, rets, out, aborted>>

\* cass_prepared_free: the caller's handle is dropped.
PreparedFree ==
    /\ is_some(cassPrepared) /\ threads[0] = "held" /\ ~aborted
    /\ arc' = free_decrement(arc)
    /\ Step(0, IF was_last(arc) THEN "last" ELSE "released")
    /\ UNCHANGED <<cassResult, cassValue, meta, rawValue, rowPtr, twin, bindings,
                   iterator, ctor, rets, out, aborted>>

\* The errors a request can end with.
Consistencies == {"One", "Quorum"}
WriteTypes == {"Simple", "Cas", "Other"}
Counts == 0..MaxVal
ErrorTexts == {<<>>, <<"k", "s">>}
ArgTypes == SeqsOf({<<"i", "n", "t">>, <<"t", "e", "x", "t">>}, 0, MaxLen)
DbErrors ==
    {[db |-> "Unavailable", consistency |-> c, required |-> MaxVal, alive |-> a] :
        c \in Consistencies, a \in Counts}
    \cup {[db |-> "ReadTimeout", consistency |-> c, received |-> r, required |-> MaxVal,
           data_present |-> d] : c \in Consistencies, r \in Counts, d \in BOOLEAN}
    \cup {[db |-> "WriteTimeout", consistency |-> c, received |-> r, required |-> MaxVal,
           write_type |-> w] : c \in Consistencies, r \in Counts, w \in WriteTypes}
    \cup {[db |-> "ReadFailure", consistency |-> c, received |-> r, required |-> MaxVal,
           numfailures |-> f, data_present |-> d] :
            c \in Consistencies, r \in Counts, f \in 1..MaxVal, d \in BOOLEAN}
    \cup {[db |-> "WriteFailure", consistency |-> c, received |-> r, required |-> MaxVal,
           numfailures |-> f, write_type |-> w] :
            c \in Consistencies, r \in Counts, f \in 1..MaxVal, w \in WriteTypes}
    \cup {[db |-> "AlreadyExists", keyspace |-> k, table |-> t] :
            k \in ErrorTexts, t \in ErrorTexts}
    \cup {[db |-> "FunctionFailure", keyspace |-> k, function |-> <<"f">>, arg_types |-> ts] :
            k \in ErrorTexts, ts \in ArgTypes}
    \cup {[db |-> "SyntaxError"], [db |-> "Overloaded"]}
ErrorResults ==
    {[variant |-> "Query", error |-> [kind |-> "DbError", db |-> e]] : e \in DbErrors}
    \cup {[variant |-> "Query", error |-> [kind |-> "TimeoutError"]],
          [variant |-> "ResultMetadataLazyDeserialization"],
          [variant |-> "Deserialization"]}

\* An accessor call on the error result the caller holds.
OnError(acc, arg, res) ==
    /\ is_some(cassError) /\ threads[0] = "held" /\ ~aborted
    /\ out' = Some([acc |-> acc, arg |-> arg, res |-> res])
    /\ UNCHANGED <<cassResult, cassValue, meta, rawValue, rowPtr, arc, threads, twin,
                   bindings, iterator, ctor, rets, aborted>>

Error == unwrap(cassError)

ErrorConsistency ==
    /\ is_some(cassError)
    /\ OnError("cass_error_result_consistency", None, cass_error_result_consistency(Error))
ErrorResponsesReceived ==
    /\ is_some(cassError)
    /\ OnError("cass_error_result_responses_received", None,
               cass_error_result_responses_received(Error))
ErrorResponsesRequired ==
    /\ is_some(cassError)
    /\ OnError("cass_error_result_responses_required", None,
               cass_error_result_responses_required(Error))
ErrorNumFailures ==
    /\ is_some(cassError)
    /\ OnError("cass_error_result_num_failures", None, cass_error_result_num_failures(Error))
ErrorDataPresent ==
    /\ is_some(cassError)
    /\ OnError("cass_error_result_data_present", None, cass_error_result_data_present(Error))
ErrorWriteType ==
    /\ is_some(cassError)
    /\ OnError("cass_error_result_write_type", None, cass_error_result_write_type(Error))
ErrorKeyspace ==
    /\ is_some(cassError)
    /\ OnError("cass_error_result_keyspace", None, cass_error_result_keyspace(Error))
ErrorTable ==
    /\ is_some(cassError)
    /\ OnError("cass_error_result_table", None, cass_error_result_table(Error))
ErrorFunction ==
    /\ is_some(cassError)
    /\ OnError("cass_error_result_function", None, cass_error_result_function(Error))
ErrorNumArgTypes ==
    /\ is_some(cassError)
    /\ OnError("cass_error_num_arg_types", None, cass_error_num_arg_types(Error))
ErrorArgType ==
    /\ is_some(cassError)
    /\ \E index \in Indexes :
         OnError("cass_error_result_arg_type", index, cass_error_result_arg_type(Error, index))

\* cass_error_result_free: the caller's handle is dropped.
ErrorResultFree ==
    /\ is_some(cassError) /\ threads[0] = "held" /\ ~aborted
    /\ arc' = free_decrement(arc)
    /\ Step(0, IF was_last(arc) THEN "last" ELSE "released")
    /\ UNCHANGED <<cassResult, cassValue, meta, rawValue, rowPtr, twin, bindings,
                   iterator, ctor, rets, out, aborted>>

\* A release called with a null pointer: one of its outcomes happens.
NullFree(acc, outcomes) ==
    /\ \E o \in outcomes :
         /\ out' = Some([acc |-> acc, arg |-> NullPtr,
                         res |-> [panic |-> o = "abort", status |-> o, ptr |-> None]])
         /\ aborted' = (o = "abort")
    /\ UNCHANGED <<cassResult, cassValue, meta, rawValue, rowPtr, arc, threads, twin,
                   bindings, iterator, ctor, rets>>

IteratorFreeNull == ~aborted /\ NullFree("cass_iterator_free", free_boxed(NullPtr))
ResultFreeNull == ~aborted /\ NullFree("cass_result_free", free_arced(NullPtr))
PreparedFreeNull == ~aborted /\ NullFree("cass_prepared_free", free_arced(NullPtr))
StatementFreeNull == ~aborted /\ NullFree("cass_statement_free", free_boxed(NullPtr))
ErrorResultFreeNull == ~aborted /\ NullFree("cass_error_result_free", ArcFFI_free(NullPtr))

InitStmt ==
    /\ cassResult = None /\ cassValue = None /\ meta = None /\ rawValue = None
    /\ rowPtr = None /\ arc = ArcNew /\ twin = None
    /\ threads = [h \in 0..MaxIters |-> IF h = 0 THEN "held" ELSE "none"]
    /\ cassStatement = NoStatements
    /\ \/ cassPrepared \in {Some(p) : p \in Prepareds} /\ cassError = None
       \/ cassPrepared = None /\ cassError \in {None} \cup {Some(e) : e \in ErrorResults}
    /\ iterator = None /\ ctor = "" /\ rets = <<>> /\ out = None /\ aborted = FALSE

NextStmt ==
    \/ StatementNewN
    \/ StatementBindNull
    \/ StatementBindInt32
    \/ StatementBindStringN
    \/ StatementSetTracing
    \/ StatementSetPagingSize
    \/ StatementSetIsIdempotent
    \/ \E i \in 1..MaxIters : PreparedBind(i) \/ StatementFree(i)
    \/ PreparedFree
    \/ ErrorConsistency
    \/ ErrorResponsesReceived
    \/ ErrorResponsesRequired
    \/ ErrorNumFailures
    \/ ErrorDataPresent
    \/ ErrorWriteType
    \/ ErrorKeyspace
    \/ ErrorTable
    \/ ErrorFunction
    \/ ErrorNumArgTypes
    \/ ErrorArgType
    \/ ErrorResultFree
    \/ IteratorFreeNull
    \/ ResultFreeNull
    \/ PreparedFreeNull
    \/ StatementFreeNull
    \/ ErrorResultFreeNull
    \/ \E h \in 0..MaxIters : DropPayload(h)

SpecStmt == InitStmt /\ [][NextStmt]_vars

\* ================================================================== claims
HasIterator == is_some(iterator) /\ ~aborted
It == unwrap(iterator)
Variant == It.variant
Calls == Len(rets)
LastRet == rets[Len(rets)]
MetaVariants ==
    {"CassSchemaMetaIterator", "CassKeyspaceMetaTableIterator",
     "CassKeyspaceMetaUserTypeIterator", "CassKeyspaceMetaViewIterator",
     "CassTableMetaIterator", "CassViewMetaIterator"}

\* The k-th row of the response, decoded.
ResponseRow(result, k) ==
    LET cols == ColumnIterator(result.result, rows(result.result)[k])
    IN  CassRow([i \in 1..Len(cols) |->
                   unwrap(decode_value(RawValue(cols[i].spec.typ, cols[i].slice),
                                       cols[i].spec.typ))])

\* C1: on a result iterator over N rows, after the k-th call of
\* cass_iterator_next (k <= N) the call has returned true and
\* cass_iterator_get_row exposes the k-th row of the response; the call after
\* the N-th returns false.
C1_RowsInArrivalOrder ==
    (HasIterator /\ Variant = "CassResultIterator" /\ Calls >= 1) =>
        IF Calls <= SourceSize(It)
        THEN /\ LastRet
             /\ cass_iterator_get_row(It) = Ptr(Some(ResponseRow(unwrap(It.result), Calls)))
        ELSE ~LastRet

\* C2: the first cass_iterator_next on a fresh iterator over a source of size
\* N leaves the position at 0, and returns true exactly when N > 0.
C2_FirstAdvance ==
    (HasIterator /\ Calls = 1) =>
        /\ It.position = Some(0)
        /\ rets[1] = (SourceSize(It) > 0)

C2_Witness ==
    /\ HasIterator /\ Calls = 1 /\ rets[1]
    /\ Variant = "CassUdtIterator" /\ It.count = MaxLen

\* C3 as claimed: on every iterator the i-th call of cass_iterator_next
\* returns true exactly when i <= N, N the iterator's count (for a record
\* iterator the number of declared fields).
C3_ExactlyCountSuccesses ==
    HasIterator => \A i \in 1..Calls : rets[i] = (i <= SourceSize(It))

\* The fields of the record the caller holds that are present on the wire.
WireFields == Len(unwrap(unwrap(cassValue).frame_slice))
Successes(iter) ==
    IF iter.variant = "CassUdtIterator" THEN WireFields ELSE SourceSize(iter)

\* C3 as amended: the i-th call returns true exactly when i <= N, where N is
\* the iterator's count, except on a record iterator, where N is the number
\* of declared fields whose value is present on the wire.
C3_ExactlySuccesses ==
    HasIterator => \A i \in 1..Calls : rets[i] = (i <= Successes(It))

C3_Witness ==
    /\ HasIterator /\ Variant = "CassUdtIterator" /\ WireFields < It.count
    /\ Calls = It.count + 1 /\ rets[WireFields] /\ ~rets[WireFields + 1]

\* C4: once cass_iterator_next has returned false on an iterator, every later
\* call on it returns false, and no call of cass_iterator_next aborts.
C4_ExhaustionAbsorbing ==
    /\ \A i, j \in 1..Calls : (i < j /\ ~rets[i]) => ~rets[j]
    /\ aborted => (is_some(out) /\ unwrap(out).res.panic)

C4_Witness ==
    /\ HasIterator /\ Variant = "CassUdtIterator"
    /\ Calls >= 3 /\ ~rets[Calls - 1] /\ ~LastRet /\ rets[1]

Exhausted(iter) == is_some(iter.position) /\ unwrap(iter.position) >= iter.count

\* C5: on a sequence, tuple, dedicated-map or record iterator whose last
\* cass_iterator_next reported exhaustion (position >= count), no current
\* accessor hands out an item: the pointer accessors do not return a value
\* and the field-name accessor does not return CASS_OK.
C5_NoStaleCurrent ==
    (/\ HasIterator /\ Calls >= 1 /\ ~LastRet /\ Exhausted(It)
     /\ Variant \in {"SequenceIterator", "CassTupleIterator", "CassMapIterator",
                     "CassUdtIterator"}) =>
        /\ is_none(cass_iterator_get_value(It).ptr)
        /\ is_none(cass_iterator_get_map_key(It).ptr)
        /\ is_none(cass_iterator_get_map_value(It).ptr)
        /\ is_none(cass_iterator_get_user_type_field_value(It).ptr)
        /\ cass_iterator_get_user_type_field_name(It).status # "CASS_OK"

\* The current accessors that belong to a variant.
OwnAccessors(iter) ==
    CASE iter.variant = "CassResultIterator" -> {cass_iterator_get_row(iter)}
      [] iter.variant = "CassRowIterator" -> {cass_iterator_get_column(iter)}
      [] iter.variant \in {"SequenceIterator", "CassTupleIterator"} ->
           {cass_iterator_get_value(iter)}
      [] iter.variant = "SeqMapIterator" ->
           {cass_iterator_get_value(iter), cass_iterator_get_map_key(iter),
            cass_iterator_get_map_value(iter)}
      [] iter.variant = "CassMapIterator" ->
           {cass_iterator_get_map_key(iter), cass_iterator_get_map_value(iter)}
      [] iter.variant = "CassUdtIterator" ->
           {cass_iterator_get_user_type_field_name(iter),
            cass_iterator_get_user_type_field_value(iter)}
      [] iter.variant = "CassSchemaMetaIterator" -> {cass_iterator_get_keyspace_meta(iter)}
      [] iter.variant = "CassKeyspaceMetaTableIterator" ->
           {cass_iterator_get_table_meta(iter)}
      [] iter.variant = "CassKeyspaceMetaUserTypeIterator" ->
           {cass_iterator_get_user_type(iter)}
      [] iter.variant = "CassKeyspaceMetaViewIterator" ->
           {cass_iterator_get_materialized_view_meta(iter)}
      [] iter.variant = "CassTableMetaIterator" ->
           {cass_iterator_get_column_meta(iter),
            cass_iterator_get_materialized_view_meta(iter)}
      [] OTHER -> {cass_iterator_get_column_meta(iter)}

\* An accessor answered "nothing": a null pointer, or
\* CASS_ERROR_LIB_BAD_PARAMS from the field-name accessor; it did not panic.
NothingCurrent(res) ==
    /\ ~res.panic
    /\ is_none(res.ptr)
    /\ res.status \in {"pointer", "CASS_ERROR_LIB_BAD_PARAMS"}

\* C6: on a fresh iterator (no cass_iterator_next yet) every accessor that
\* belongs to its variant answers null (CASS_ERROR_LIB_BAD_PARAMS for the field
\* name) and does not abort.
C6_FreshIteratorHasNoCurrent ==
    (HasIterator /\ is_none(It.position)) =>
        \A res \in OwnAccessors(It) : NothingCurrent(res)

\* C7: in every state an accessor that is not defined for the iterator's
\* variant answers null (CASS_ERROR_LIB_BAD_PARAMS for the field name).
C7_UndefinedAccessorIsNull ==
    HasIterator =>
        /\ Variant # "CassResultIterator" => NothingCurrent(cass_iterator_get_row(It))
        /\ Variant # "CassRowIterator" => NothingCurrent(cass_iterator_get_column(It))
        /\ Variant \notin {"SequenceIterator", "SeqMapIterator", "CassTupleIterator"} =>
               NothingCurrent(cass_iterator_get_value(It))
        /\ Variant \notin {"CassMapIterator", "SeqMapIterator"} =>
               /\ NothingCurrent(cass_iterator_get_map_key(It))
               /\ NothingCurrent(cass_iterator_get_map_value(It))
        /\ Variant # "CassUdtIterator" =>
               /\ cass_iterator_get_user_type_field_name(It)
                      = Status("CASS_ERROR_LIB_BAD_PARAMS", None)
               /\ NothingCurrent(cass_iterator_get_user_type_field_value(It))

C7_Witness ==
    /\ HasIterator /\ Variant = "CassMapIterator" /\ Calls = 1 /\ LastRet
    /\ is_some(It.value)
    /\ out = Some([acc |-> "cass_iterator_get_value", res |-> Null])

\* C8: an iterator made by cass_iterator_columns_from_table_meta always gets
\* null from cass_iterator_get_materialized_view_meta, one made by
\* cass_iterator_materialized_views_from_table_meta always gets null from
\* cass_iterator_get_column_meta, and on each the accessor the shape is
\* defined for returns non-null exactly when the last cass_iterator_next
\* returned true.
C8_TableMetaShapes ==
    HasIterator =>
        /\ ctor = "cass_iterator_columns_from_table_meta" =>
               /\ is_none(cass_iterator_get_materialized_view_meta(It).ptr)
               /\ is_some(cass_iterator_get_column_meta(It).ptr) = (Calls >= 1 /\ LastRet)
        /\ ctor = "cass_iterator_materialized_views_from_table_meta" =>
               /\ is_none(cass_iterator_get_column_meta(It).ptr)
               /\ is_some(cass_iterator_get_materialized_view_meta(It).ptr)
                      = (Calls >= 1 /\ LastRet)

\* The raw key and value of the j-th pair of the map the caller holds.
MapFrame == unwrap(unwrap(cassValue).frame_slice)
Pairs == MapFrame[1]
PairKey(j) == decode_value(RawValue(MapType.args[1], MapFrame[2 * j]), MapType.args[1])
PairValue(j) == decode_value(RawValue(MapType.args[2], MapFrame[2 * j + 1]), MapType.args[2])
\* The pairs the wire iterator has been asked for so far.
Decoded(iter) == Pairs - Len(iter.map_iterator)
Min(a, b) == IF a < b THEN a ELSE b

\* C9: a collection iterator over a map of P pairs has count 2P; a pair is
\* decoded exactly by the advances that land on an even position below
\* count; at position p < count cass_iterator_get_value returns the key of
\* pair floor(p/2) when p is even and the value of that pair when p is odd.
C9_FlatMap ==
    (HasIterator /\ Variant = "SeqMapIterator") =>
        /\ It.count = 2 * Pairs
        /\ is_none(It.position) => Decoded(It) = 0
        /\ is_some(It.position) =>
               LET p == unwrap(It.position)
               IN  /\ Decoded(It) = Min(Pairs, p \div 2 + 1)
                   /\ p < It.count =>
                        cass_iterator_get_value(It) =
                            Ptr(IF p % 2 = 0 THEN PairKey(p \div 2 + 1)
                                ELSE PairValue(p \div 2 + 1))

C9_Witness ==
    /\ HasIterator /\ Variant = "SeqMapIterator" /\ It.count = 2 * MaxLen
    /\ It.position = Some(3)
    /\ PairValue(1) # PairValue(2)
    /\ is_some(out) /\ unwrap(out).acc = "cass_iterator_get_value"

\* C10: a typed scalar accessor called on a null Value pointer, or on a Value
\* whose is_null is true, returns CASS_ERROR_LIB_NULL_VALUE whatever the
\* declared type, and writes nothing.
C10_NullValueStatus ==
    (is_some(out) /\ cass_value_is_null(cassValue)) =>
        unwrap(out).res = Status("CASS_ERROR_LIB_NULL_VALUE", None)

C10_Witness ==
    /\ is_some(cassValue) /\ unwrap(cassValue).is_null
    /\ unwrap(cassValue).value_type.kind = "Text"
    /\ is_some(out) /\ unwrap(out).acc = "cass_value_get_int32"

\* The typed accessor last called, what it yielded, and the value it read.
Acc == unwrap(out).acc
Res == unwrap(out).res
TypedRead_done == is_some(out) /\ is_some(cassValue) /\ ~unwrap(cassValue).is_null
Declared == unwrap(cassValue).value_type.kind
\* The declared types an accessor is for: its own wire type, and the types
\* the two aliasing rules add for the 64-bit integer and the UUID accessors.
OwnTypes(acc) ==
    CASE acc = "cass_value_get_bool" -> {"Boolean"}
      [] acc = "cass_value_get_float" -> {"Float"}
      [] acc = "cass_value_get_double" -> {"Double"}
      [] acc = "cass_value_get_int8" -> {"TinyInt"}
      [] acc = "cass_value_get_int16" -> {"SmallInt"}
      [] acc = "cass_value_get_int32" -> {"Int"}
      [] acc = "cass_value_get_int64" -> {"BigInt", "Counter", "Timestamp", "Time"}
      [] acc = "cass_value_get_decimal" -> {"Decimal"}
      [] acc = "cass_value_get_string" -> {"Ascii", "Text"}
      [] acc = "cass_value_get_bytes" -> {"Blob"}
      [] acc = "cass_value_get_duration" -> {"Duration"}
      [] acc = "cass_value_get_uint32" -> {"Date"}
      [] acc = "cass_value_get_inet" -> {"Inet"}
      [] OTHER -> {"Uuid", "Timeuuid"}

\* C11: a typed scalar accessor called on a non-null Value whose declared
\* type is neither the accessor's own wire type nor one the two aliasing
\* rules admit returns CASS_ERROR_LIB_INVALID_VALUE_TYPE and writes nothing to
\* its output slot (the bytes are not decoded).
C11_MismatchIsReported ==
    (TypedRead_done /\ Declared \notin OwnTypes(Acc)) =>
        Res = Status("CASS_ERROR_LIB_INVALID_VALUE_TYPE", None)

\* The accessor's type check let the value through.
PassedTypeCheck ==
    Res.status \notin {"CASS_ERROR_LIB_NULL_VALUE", "CASS_ERROR_LIB_INVALID_VALUE_TYPE"}

\* C12: on a non-null Value cass_value_get_int64 passes the type check
\* exactly for the declared types bigint, counter, timestamp and time, and
\* cass_value_get_uuid exactly for uuid and timeuuid.
C12_AliasingRules ==
    TypedRead_done =>
        /\ Acc = "cass_value_get_int64" =>
               (PassedTypeCheck <=> Declared \in {"BigInt", "Counter", "Timestamp", "Time"})
        /\ Acc = "cass_value_get_uuid" =>
               (PassedTypeCheck <=> Declared \in {"Uuid", "Timeuuid"})

C12_Witness ==
    /\ TypedRead_done /\ Acc = "cass_value_get_int64" /\ Declared = "Counter"
    /\ Res.status = "CASS_OK"

\* What the accessor's pattern accepts, and whether the bytes are an encoding
\* of the type the accessor reads.
Accepted(acc, value) ==
    IF acc = "cass_value_get_decimal"
    THEN cass_value_type(value) = "CASS_VALUE_TYPE_DECIMAL"
    ELSE cass_value_type(value) \in StrictAccessors[acc].accepts
Decodes(acc, value) ==
    IF acc = "cass_value_get_decimal"
    THEN is_some(value.frame_slice) /\ Len(unwrap(value.frame_slice)) >= 4
    ELSE deserialize(StrictAccessors[acc].col_type, value.frame_slice).ok

\* C13: a typed scalar accessor returns CASS_ERROR_LIB_NULL_VALUE if the value
\* is null, else CASS_ERROR_LIB_INVALID_VALUE_TYPE if the declared type is
\* not accepted, else CASS_ERROR_LIB_NOT_ENOUGH_DATA if the bytes do not
\* decode, else CASS_OK; it writes its output slot only when it returns
\* CASS_OK.
C13_FourOutcomesInOrder ==
    is_some(out) =>
        /\ Res.status =
               IF cass_value_is_null(cassValue) THEN "CASS_ERROR_LIB_NULL_VALUE"
               ELSE IF ~Accepted(Acc, unwrap(cassValue))
               THEN "CASS_ERROR_LIB_INVALID_VALUE_TYPE"
               ELSE IF ~Decodes(Acc, unwrap(cassValue))
               THEN "CASS_ERROR_LIB_NOT_ENOUGH_DATA"
               ELSE "CASS_OK"
        /\ is_some(Res.ptr) <=> Res.status = "CASS_OK"

C13_Witness ==
    /\ TypedRead_done /\ Acc = "cass_value_get_decimal" /\ Declared = "Int"
    /\ Len(unwrap(unwrap(cassValue).frame_slice)) < 4
    /\ Res.status = "CASS_ERROR_LIB_INVALID_VALUE_TYPE"

\* decode_value has been applied to the raw value.
Decoded_done == is_some(rawValue) /\ is_some(out) /\ unwrap(out).acc = "decode_value"
Raw == unwrap(rawValue)
NullSpan(raw) == is_none(raw.slice) \/ Len(unwrap(raw.slice)) = 0

\* C14: decode_value on an absent or an empty span produces a Value with
\* is_null = true and count = 0 whatever the declared type, and every Value
\* decode_value produces has count = 0 when is_null is true.
C14_NullSpanDecodesToNull ==
    Decoded_done =>
        /\ NullSpan(Raw) =>
               /\ is_some(cassValue)
               /\ unwrap(cassValue).is_null /\ unwrap(cassValue).count = 0
        /\ (is_some(cassValue) /\ unwrap(cassValue).is_null) => unwrap(cassValue).count = 0

\* C15: decode_value on a NULL (absent) value of a list, set, map, tuple or
\* user-defined type yields is_null = true and count = 0, and each of
\* cass_iterator_from_collection, cass_iterator_from_map,
\* cass_iterator_from_tuple and cass_iterator_fields_from_user_type returns
\* the null pointer for it.
C15_NullCollectionHasNoIterator ==
    (/\ Decoded_done /\ is_none(Raw.slice)
     /\ Raw.spec.kind \in {"List", "Set", "Map", "Tuple", "UserDefinedType"}) =>
        /\ is_some(cassValue)
        /\ unwrap(cassValue).is_null /\ unwrap(cassValue).count = 0
        /\ iterator = NullPtr
        /\ cass_iterator_from_collection(unwrap(cassValue)) = NullPtr
        /\ cass_iterator_from_map(unwrap(cassValue)) = NullPtr
        /\ cass_iterator_from_tuple(unwrap(cassValue)) = NullPtr
        /\ cass_iterator_fields_from_user_type(unwrap(cassValue)) = NullPtr

C15_Witness ==
    /\ Decoded_done /\ is_none(Raw.slice) /\ Raw.spec.kind = "Map"
    /\ ctor = "cass_iterator_from_collection" /\ iterator = NullPtr

\* C16: for a non-empty span whose length prefix parses, decode_value
\* produces a Value whose count is the length prefix for a list, set or map
\* (for a map the number of pairs), the number of declared fields for a
\* user-defined type, the number of declared element types for a tuple and 0
\* for a primitive, and whose span is the span it was given.
C16_CountByDeclaredType ==
    (Decoded_done /\ ~NullSpan(Raw)) =>
        LET frame == unwrap(Raw.slice)
            kind == Raw.spec.kind
        IN  /\ is_some(cassValue) <=> ~(kind \in {"List", "Set", "Map"} /\ frame[1] < 0)
            /\ is_some(cassValue) =>
                   /\ unwrap(cassValue).frame_slice = Raw.slice
                   /\ unwrap(cassValue).count =
                          CASE kind \in {"List", "Set"} -> Len(frame) - 1
                            [] kind = "Map" -> (Len(frame) - 1) \div 2
                            [] kind \in {"Tuple", "UserDefinedType"} -> Len(Raw.spec.args)
                            [] OTHER -> 0

C16_Witness ==
    /\ Decoded_done /\ Raw.spec.kind = "Map" /\ is_some(cassValue)
    /\ unwrap(cassValue).count = MaxLen /\ Len(unwrap(Raw.slice)) = 2 * MaxLen + 1

\* A lookup by name has been made through the row pointer.
Lookup_done ==
    /\ is_some(out)
    /\ unwrap(out).acc \in {"cass_row_get_column_by_name_n", "cass_row_get_column_by_name"}
Looked == unwrap(out).arg
Row == unwrap(rowPtr)
Specs == unwrap(cassResult).result.col_specs
\* The name is text: every byte is UTF-8.
IsText(name) == \A i \in 1..Len(name) : name[i] # "0xFF"
\* The name is wrapped in double quotes, and what the quotes wrap.
Wrapped(name) == Len(name) >= 2 /\ name[1] = Quote /\ name[Len(name)] = Quote
Inner(name) == SubSeq(name, 2, Len(name) - 1)
Lower(s) == [i \in 1..Len(s) |-> to_ascii_lowercase(s[i])]
\* The columns a supplied name matches.
Matching(name) ==
    {i \in 1..Len(Specs) :
        IF Wrapped(name) THEN Specs[i].name = Inner(name)
        ELSE Lower(Specs[i].name) = Lower(name)}

\* C17: on a live row, cass_row_get_column_by_name_n with a name that is text
\* (and not the lone double quote) returns the value of the lowest-indexed
\* column the name matches, and null when it matches none: a name wrapped in
\* double quotes matches the columns whose name equals what the quotes wrap,
\* any other name the columns whose name equals it ignoring ASCII case.
C17_FirstMatchByName ==
    (/\ Lookup_done /\ unwrap(out).acc = "cass_row_get_column_by_name_n"
     /\ unwrap(out).strong > 0 /\ IsText(Looked) /\ Looked # <<Quote>>) =>
        unwrap(out).res =
            IF Matching(Looked) = {} THEN Null
            ELSE Ptr(Some(Row.columns[CHOOSE i \in Matching(Looked) :
                                          \A j \in Matching(Looked) : i <= j]))

C17_Witness ==
    /\ Lookup_done /\ unwrap(out).acc = "cass_row_get_column_by_name_n"
    /\ unwrap(out).strong > 0
    /\ Len(Specs) = 2 /\ Specs[1].name = <<"a">> /\ Specs[2].name = <<"A">>
    /\ Looked = <<Quote, "A", Quote>>
    /\ unwrap(out).res = Ptr(Some(Row.columns[2]))

\* C18: on a live row, cass_row_get_column_by_name_n returns null or a
\* pointer to one of the row's columns for every name the caller supplies,
\* and does not abort.
C18_LookupNeverAborts ==
    (/\ Lookup_done /\ unwrap(out).acc = "cass_row_get_column_by_name_n"
     /\ unwrap(out).strong > 0) =>
        /\ ~unwrap(out).res.panic
        /\ \/ unwrap(out).res = Null
           \/ \E i \in 1..Len(Row.columns) : unwrap(out).res = Ptr(Some(Row.columns[i]))

\* C19: a lookup by name through a row whose result has been released (its
\* strong count is zero) returns null and does not abort.
C19_LookupAfterReleaseFails ==
    (Lookup_done /\ unwrap(out).strong = 0) => unwrap(out).res = Null

\* The holders of the Arc that have taken their share and not given it up.
Holding == {h \in DOMAIN threads : threads[h] \in {"held", "cloned"}}
Releasing == {h \in DOMAIN threads : threads[h] = "last"}

\* C20: under every interleaving of cass_iterator_from_result,
\* cass_iterator_free and cass_result_free on one result, the strong count is
\* the number of holders (the caller's handle and the result iterators) that
\* have not released, and the payload is dropped once, by the holder that
\* released last, and not before the count is zero.
C20_StrongCountIsHolders ==
    /\ arc.strong = Cardinality(Holding)
    /\ arc.dropped \in {0, 1}
    /\ Cardinality(Releasing) + arc.dropped <= 1
    /\ (Releasing # {} \/ arc.dropped = 1) => Holding = {}
    /\ (Holding = {} /\ Releasing = {}) => arc.dropped = 1

C20_Witness ==
    /\ arc.dropped = 1 /\ arc.strong = 0
    /\ \A h \in 0..MaxIters : threads[h] = "released"

\* C22: a result iterator holds one Row slot, present exactly when the result
\* has a first row; every non-null pointer cass_iterator_get_row returns is
\* that slot, and whatever cass_iterator_next wrote into it, the slot keeps
\* the column count of the first row.
C22_SingleRowSlot ==
    (HasIterator /\ Variant = "CassResultIterator") =>
        LET first == unwrap(It.result).first_row
        IN  /\ is_some(It.row) = is_some(first)
            /\ is_some(It.row) =>
                   Len(unwrap(It.row).columns) = Len(unwrap(first).columns)
            /\ cass_iterator_get_row(It) \in {Null, Ptr(It.row)}

C22_Witness ==
    /\ HasIterator /\ Variant = "CassResultIterator"
    /\ Calls = 2 /\ rets[1] /\ rets[2]
    /\ Len(unwrap(It.row).columns) = 2
    /\ out = Some([acc |-> "cass_iterator_get_row", res |-> Ptr(It.row)])

\* C25: a dedicated map iterator over a map of P pairs has count P, and after
\* a cass_iterator_next that returned true at position i,
\* cass_iterator_get_map_key and cass_iterator_get_map_value return the key
\* and the value of pair i, both non-null.
C25_DedicatedMapPairs ==
    (HasIterator /\ Variant = "CassMapIterator") =>
        /\ It.count = Pairs
        /\ (Calls >= 1 /\ LastRet) =>
               LET i == unwrap(It.position)
               IN  /\ is_some(PairKey(i + 1)) /\ is_some(PairValue(i + 1))
                   /\ cass_iterator_get_map_key(It) = Ptr(PairKey(i + 1))
                   /\ cass_iterator_get_map_value(It) = Ptr(PairValue(i + 1))

C25_Witness ==
    /\ HasIterator /\ Variant = "CassMapIterator" /\ It.count = MaxLen
    /\ Calls = 2 /\ LastRet /\ It.position = Some(1)
    /\ PairKey(1) # PairKey(2) /\ PairValue(1) # PairValue(2)
    /\ is_some(out) /\ unwrap(out).acc = "cass_iterator_get_map_value"
    /\ is_some(unwrap(out).res.ptr)

\* The elements and the declared element types of the tuple the caller holds.
TupleFrame == unwrap(unwrap(cassValue).frame_slice)
TupleTypes == get_tuple_types(unwrap(cassValue).value_type)
TupleElement(i) ==
    decode_value(RawValue(TupleTypes[i + 1], TupleFrame[i + 1]), TupleTypes[i + 1])

\* C26: on a tuple iterator a cass_iterator_next that lands on position i
\* returns true and leaves in the value slot element i decoded with the i-th
\* declared element type when the declared list has an entry at i; when it
\* has none, the call returns false and the value slot still holds what the
\* last successful advance wrote.
C26_TupleElementTypes ==
    (HasIterator /\ Variant = "CassTupleIterator" /\ Calls >= 1) =>
        LET i == unwrap(It.position)
            n == Len(TupleTypes)
        IN  IF i < n
            THEN LastRet /\ It.value = TupleElement(i)
            ELSE ~LastRet /\ It.value = TupleElement(n - 1)

C26_Witness ==
    /\ HasIterator /\ Variant = "CassTupleIterator" /\ Len(TupleTypes) = 2
    /\ Calls = 3 /\ rets[2] /\ ~rets[3]
    /\ TupleTypes[1] # TupleTypes[2]
    /\ out = Some([acc |-> "cass_iterator_get_value", res |-> Ptr(TupleElement(1))])

\* The fields of the record the caller holds, as they are on the wire.
RecordFrame == unwrap(unwrap(cassValue).frame_slice)

\* C27: on a record value that declares the fields (a, b) and carries only a
\* on the wire, the first cass_iterator_next returns true and every later
\* one false; after the first, the field-name accessor writes "a" with
\* CASS_OK and the field-value accessor returns the value of a.
C27_PartialRecord ==
    (HasIterator /\ Variant = "CassUdtIterator" /\ It.count = 2 /\ WireFields = 1) =>
        /\ \A i \in 1..Calls : rets[i] = (i = 1)
        /\ Calls = 1 =>
               /\ cass_iterator_get_user_type_field_name(It) = Status("CASS_OK", Some("a"))
               /\ cass_iterator_get_user_type_field_value(It) =
                      Ptr(decode_value(RawValue(IntType, RecordFrame[1]), IntType))

C27_Witness ==
    /\ HasIterator /\ Variant = "CassUdtIterator" /\ It.count = 2 /\ WireFields = 1
    /\ Calls = 3 /\ rets = <<TRUE, FALSE, FALSE>>
    /\ is_some(out) /\ unwrap(out).acc = "cass_iterator_get_user_type_field_name"

\* C28: when cass_iterator_next on a record iterator lands on a declared field
\* that is absent from the frame, the position has moved by one, the call has
\* returned false, and no current field is exposed: the field-name accessor
\* does not return CASS_OK and the field-value accessor returns null.
C28_AbsentFieldExposesNothing ==
    (/\ HasIterator /\ Variant = "CassUdtIterator" /\ Calls >= 1
     /\ unwrap(It.position) < It.count /\ unwrap(It.position) >= WireFields) =>
        /\ It.position = Some(Calls - 1)
        /\ ~LastRet
        /\ cass_iterator_get_user_type_field_name(It).status # "CASS_OK"
        /\ is_none(cass_iterator_get_user_type_field_value(It).ptr)

Called(acc) == is_some(out) /\ unwrap(out).acc = acc
Index == unwrap(out).arg

\* C29: cass_result_paging_state_token returns CASS_ERROR_LIB_NO_PAGING_STATE
\* and writes nothing exactly when cass_result_has_more_pages is false on the
\* result; otherwise it returns CASS_OK and writes the address and the length
\* of the paging state.
C29_TokenIffMorePages ==
    Called("cass_result_paging_state_token") =>
        LET result == unwrap(cassResult)
            token == result.result.paging_state
        IN  IF cass_result_has_more_pages(result)
            THEN unwrap(out).res =
                     Status("CASS_OK", Some([paging_state |-> token,
                                             paging_state_size |-> Len(unwrap(token))]))
            ELSE unwrap(out).res = Status("CASS_ERROR_LIB_NO_PAGING_STATE", None)

C29_Witness ==
    /\ Called("cass_result_paging_state_token")
    /\ unwrap(cassResult).result.paging_state = Some(<<>>)
    /\ unwrap(out).res.status = "CASS_OK"

\* C30: cass_result_column_name returns CASS_ERROR_LIB_INDEX_OUT_OF_BOUNDS and
\* writes nothing when the index is at or past the column count or the result
\* has no column specs, and CASS_OK with the name of the index-th column
\* otherwise; cass_row_get_column returns null when the index is at or past
\* the number of columns of the row, and the index-th Value otherwise.
C30_IndexBounds ==
    /\ Called("cass_result_column_name") =>
           LET q == unwrap(cassResult).result
           IN  IF is_none(q.rows) \/ Index >= Len(q.col_specs)
               THEN unwrap(out).res = Status("CASS_ERROR_LIB_INDEX_OUT_OF_BOUNDS", None)
               ELSE unwrap(out).res =
                        Status("CASS_OK",
                               Some([c_str |-> q.col_specs[Index + 1].name,
                                     c_strlen |-> Len(q.col_specs[Index + 1].name)]))
    /\ Called("cass_row_get_column") =>
           IF Index >= Len(Row.columns)
           THEN unwrap(out).res = Null
           ELSE unwrap(out).res = Ptr(Some(Row.columns[Index + 1]))

C30_Witness ==
    /\ Called("cass_row_get_column")
    /\ Len(Row.columns) = MaxLen /\ Index = MaxLen - 1
    /\ unwrap(out).res = Ptr(Some(Row.columns[MaxLen]))

\* C21: while the caller holds its handle to the result, whatever result
\* iterators have been made and freed, the result is alive (nobody has
\* dropped it or is about to) and cass_result_first_row returns the first
\* row with the columns decoded when the result was built.
C21_IteratorFreeKeepsResult ==
    threads[0] = "held" =>
        /\ arc.strong >= 1 /\ arc.dropped = 0 /\ Releasing = {}
        /\ cass_result_first_row(unwrap(cassResult))
               = Ptr(CassResultNew(unwrap(cassResult).result).first_row)

C21_Witness ==
    /\ threads[0] = "held" /\ arc.dropped = 0
    /\ is_some(unwrap(cassResult).first_row)
    /\ \A i \in 1..MaxIters : threads[i] = "released"

Twin == unwrap(twin)
Siblings == HasIterator /\ is_some(twin) /\ Twin.role = "sibling"

ChildStep ==
    /\ twin' # twin
    /\ \/ is_some(twin) /\ unwrap(twin).role = "child"
       \/ is_some(twin') /\ unwrap(twin').role = "child"

C35_TrueAdvanceHasRow ==
    (HasIterator /\ Variant = "CassResultIterator") =>
        /\ (Calls >= 1 /\ LastRet) => is_some(cass_iterator_get_row(It).ptr)
        /\ SourceSize(It) > 0 => is_some(unwrap(cassResult).first_row)

C35_Witness ==
    /\ HasIterator /\ Variant = "CassResultIterator"
    /\ SourceSize(It) = MaxRows /\ Calls = MaxRows /\ LastRet
    /\ is_some(out) /\ unwrap(out).acc = "cass_iterator_get_row"
    /\ is_some(unwrap(out).res.ptr)

\* C37: whatever cass_iterator_next calls a result iterator has seen, the
\* result it shares with the caller still holds the first row of the
\* response: cass_result_first_row returns it with the first row's values.
C37_FirstRowUntouched ==
    (HasIterator /\ Variant = "CassResultIterator" /\ SourceSize(It) > 0) =>
        /\ cass_result_first_row(unwrap(It.result))
               = Ptr(Some(ResponseRow(unwrap(cassResult), 1)))
        /\ cass_result_first_row(unwrap(cassResult))
               = Ptr(Some(ResponseRow(unwrap(cassResult), 1)))

C37_Witness ==
    /\ HasIterator /\ Variant = "CassResultIterator"
    /\ SourceSize(It) = 2 /\ Calls = 3 /\ rets = <<TRUE, TRUE, FALSE>>
    /\ unwrap(cassResult).result.rows # Some(<<<<None>>, <<None>>>>)

\* C38: on every iterator the position is absent before the first
\* cass_iterator_next and i - 1 after the i-th, whatever the calls returned
\* and whatever accessors were called in between.
C38_PositionCountsAdvances ==
    HasIterator =>
        It.position = IF Calls = 0 THEN None ELSE Some(Calls - 1)

C38_Witness ==
    /\ HasIterator /\ Variant = "CassRowIterator"
    /\ Calls = 4 /\ rets = <<TRUE, TRUE, FALSE, FALSE>>
    /\ is_some(out) /\ unwrap(out).acc = "cass_iterator_get_column"

\* The items the wire iterator started with and the items it still has.
WireItems(iter) ==
    CASE iter.variant \in {"SequenceIterator", "CassTupleIterator"} ->
           Len(iter.sequence_iterator)
      [] iter.variant \in {"SeqMapIterator", "CassMapIterator"} -> Len(iter.map_iterator)
      [] OTHER -> Len(iter.udt_iterator)
Requested == WireItems(unwrap(FreshIterator)) - WireItems(It)

\* C39: on a sequence, tuple, dedicated-map, flat-map or record iterator the
\* wire iterator has been asked for one item by every cass_iterator_next that
\* landed below count (on the flat-map iterator: on an even position below
\* count) and by no other, so never for more than count items (count/2
\* pairs), and no cass_iterator_next found it empty.
C39_OneRequestPerAdvance ==
    /\ (/\ HasIterator
        /\ Variant \in {"SequenceIterator", "CassTupleIterator", "CassMapIterator",
                         "SeqMapIterator", "CassUdtIterator"}) =>
           Requested = IF Variant = "SeqMapIterator"
                       THEN Min((Calls + 1) \div 2, It.count \div 2)
                       ELSE Min(Calls, It.count)
    /\ aborted => (is_some(out) /\ unwrap(out).res.panic)

C39_Witness ==
    /\ HasIterator /\ Variant = "SequenceIterator" /\ It.count = MaxLen
    /\ Calls = MaxLen + 2 /\ Requested = MaxLen /\ ~LastRet

\* The result iterators that hold their share of the result.
LiveIterators == {i \in 1..MaxIters : threads[i] = "held"}

LastCall == unwrap(out)
BindCalls == {"cass_statement_bind_null", "cass_statement_bind_int32",
              "cass_statement_bind_string_n"}
\* The caller made the first statement with cass_statement_new_n and holds it.
MadeByNewN == ctor = "cass_statement_new_n" /\ is_some(cassStatement[1])
\* The statement has as many bound values as it was made with, all Unset
\* right after it was made.
LengthKept ==
    MadeByNewN =>
        /\ Len(First.bound_values) = Made
        /\ LastCall.acc = "cass_statement_new_n" => First.bound_values = vec(Unset, LastCall.arg)
\* The last bind below the length left every other bound value, and the inner
\* statement, as they were.
BindChangesOneSlot ==
    (MadeByNewN /\ LastCall.acc \in BindCalls /\ LastCall.arg < Made) =>
        /\ \A j \in 1..Made : j # LastCall.arg + 1 =>
               First.bound_values[j] = unwrap(LastCall.before).bound_values[j]
        /\ First.statement = unwrap(LastCall.before).statement
\* The last bind below the length returned CASS_OK and set its bound value.
BindReturnsOk ==
    (MadeByNewN /\ LastCall.acc \in BindCalls /\ LastCall.arg < Made) =>
        /\ ~LastCall.res.panic /\ LastCall.res.status = "CASS_OK"
        /\ First.bound_values[LastCall.arg + 1].set

\* C40: a statement made by cass_statement_new_n with parameter_count n has n
\* bound values, all Unset; it still has n after any cass_statement_bind_* and
\* cass_statement_set_* calls; and a bind at an index below n returns CASS_OK
\* and changes the bound value at that index only.
C40_BoundValuesLength == LengthKept /\ BindChangesOneSlot /\ BindReturnsOk

\* The statements the caller holds.
LiveStatements == {i \in 1..MaxIters : is_some(cassStatement[i])}

\* C32: cass_prepared_bind takes one more strong reference and leaves the
\* caller's prepared statement alone: whatever statements were bound from it
\* and freed, while the caller has not called cass_prepared_free the prepared
\* statement is not dropped, the strong count is one more than the number of
\* live statements, each of which wraps this prepared statement; a new
\* statement has one Unset bound value per bind variable and paging disabled.
C32_BindSharesPrepared ==
    (is_some(cassPrepared) /\ threads[0] = "held") =>
        LET prepared == unwrap(cassPrepared)
            n == Len(get_variable_col_specs(prepared))
        IN  /\ arc.dropped = 0 /\ Releasing = {}
            /\ arc.strong = 1 + Cardinality(LiveStatements)
            /\ \A i \in LiveStatements :
                 /\ unwrap(cassStatement[i]).statement = [kind |-> "Prepared", prepared |-> prepared]
                 /\ unwrap(cassStatement[i]).bound_values = vec(Unset, n)
                 /\ ~unwrap(cassStatement[i]).paging_enabled

\* Two statements were bound from a prepared statement with two variables
\* and one of them was freed; the caller still holds the prepared statement.
C32_Witness ==
    /\ is_some(cassPrepared) /\ threads[0] = "held"
    /\ Len(get_variable_col_specs(unwrap(cassPrepared))) = 2
    /\ threads[1] = "released" /\ threads[2] = "held"
    /\ unwrap(cassStatement[2]).bound_values = <<Unset, Unset>>
    /\ arc.strong = 2

\* The kind of the error the caller holds: the kind of its DbError, or what
\* else it is.
ErrorKind ==
    IF Error.variant # "Query" THEN Error.variant
    ELSE IF Error.error.kind # "DbError" THEN Error.error.kind
    ELSE Error.error.db.db
\* The last call on the error result was this accessor.
ErrorCalled(acc) == is_some(cassError) /\ is_some(out) /\ unwrap(out).acc = acc
Outcome == unwrap(out).res
InvalidErrorResultType == Status("CASS_ERROR_LIB_INVALID_ERROR_RESULT_TYPE", None)

\* C33: cass_error_result_arg_type returns CASS_OK exactly when the error is
\* a FunctionFailure and the index is below cass_error_num_arg_types, and it
\* then writes that argument type; for a FunctionFailure and an index at or
\* above the count it returns CASS_ERROR_LIB_INDEX_OUT_OF_BOUNDS; for every
\* other kind it returns CASS_ERROR_LIB_INVALID_ERROR_RESULT_TYPE, and
\* cass_error_num_arg_types returns 0.
C33_ArgTypeStatus ==
    /\ ErrorCalled("cass_error_result_arg_type") =>
           LET index == unwrap(out).arg
               count == cass_error_num_arg_types(Error)
           IN  /\ (Outcome.status = "CASS_OK") <=>
                      (ErrorKind = "FunctionFailure" /\ index < count)
               /\ Outcome.status = "CASS_OK" =>
                      Outcome.ptr = Some(write_str_to_c(Error.error.db.arg_types[index + 1]))
               /\ (ErrorKind = "FunctionFailure" /\ index >= count) =>
                      Outcome = Status("CASS_ERROR_LIB_INDEX_OUT_OF_BOUNDS", None)
               /\ ErrorKind # "FunctionFailure" => Outcome = InvalidErrorResultType
    /\ ErrorCalled("cass_error_num_arg_types") =>
           Outcome = IF ErrorKind = "FunctionFailure" THEN Len(Error.error.db.arg_types) ELSE 0

\* The last argument type of a FunctionFailure with two was asked for.
C33_Witness ==
    /\ ErrorCalled("cass_error_result_arg_type")
    /\ ErrorKind = "FunctionFailure" /\ Len(Error.error.db.arg_types) = 2
    /\ unwrap(out).arg = 1
    /\ Outcome = Status("CASS_OK", Some(write_str_to_c(<<"t", "e", "x", "t">>)))

Responded == {"Unavailable", "ReadTimeout", "WriteTimeout", "ReadFailure", "WriteFailure"}

\* C34: an accessor of an error result returns its sentinel when the kind of
\* the error does not carry the field: -1 for the responses received and
\* required unless the error is Unavailable, a timeout or a failure; -1 for
\* the number of failures unless it is a failure; false for data_present
\* unless it is a read timeout or a read failure; UNKNOWN for the consistency
\* and the write type; and CASS_ERROR_LIB_INVALID_ERROR_RESULT_TYPE with
\* nothing written for the keyspace, the table and the function.
C34_SentinelWithoutField ==
    /\ (ErrorCalled("cass_error_result_responses_received") /\ ErrorKind \notin Responded) =>
           Outcome = -1
    /\ (ErrorCalled("cass_error_result_responses_required") /\ ErrorKind \notin Responded) =>
           Outcome = -1
    /\ (ErrorCalled("cass_error_result_num_failures")
            /\ ErrorKind \notin {"ReadFailure", "WriteFailure"}) =>
           Outcome = -1
    /\ (ErrorCalled("cass_error_result_data_present")
            /\ ErrorKind \notin {"ReadTimeout", "ReadFailure"}) =>
           Outcome = FALSE
    /\ (ErrorCalled("cass_error_result_consistency") /\ ErrorKind \notin Responded) =>
           Outcome = "CASS_CONSISTENCY_UNKNOWN"
    /\ (ErrorCalled("cass_error_result_write_type")
            /\ ErrorKind \notin {"WriteTimeout", "WriteFailure"}) =>
           Outcome = "CASS_WRITE_TYPE_UNKNOWN"
    /\ (ErrorCalled("cass_error_result_keyspace")
            /\ ErrorKind \notin {"AlreadyExists", "FunctionFailure"}) =>
           Outcome = InvalidErrorResultType
    /\ (ErrorCalled("cass_error_result_table") /\ ErrorKind # "AlreadyExists") =>
           Outcome = InvalidErrorResultType
    /\ (ErrorCalled("cass_error_result_function") /\ ErrorKind # "FunctionFailure") =>
           Outcome = InvalidErrorResultType

\* The number of failures of a read timeout that got a response was asked for.
C34_Witness ==
    /\ ErrorCalled("cass_error_result_num_failures")
    /\ ErrorKind = "ReadTimeout" /\ Error.error.db.received > 0
    /\ Outcome = -1

FreeCalls == {"cass_iterator_free", "cass_result_free", "cass_prepared_free",
              "cass_statement_free", "cass_error_result_free"}
\* A step that is a release called with a null pointer: the last call
\* becomes that release, or that release with another outcome.
NullFreeStep ==
    /\ is_some(out')
    /\ unwrap(out').acc \in FreeCalls /\ unwrap(out').arg = NullPtr
    /\ \/ is_none(out)
       \/ unwrap(out).acc # unwrap(out').acc
       \/ unwrap(out).res.status # unwrap(out').res.status

\* C31: cass_iterator_free, cass_result_free, cass_prepared_free,
\* cass_statement_free and cass_error_result_free called with a null pointer
\* do not abort and leave every object and every reference count as it was.
C31_NullFreeNoOp ==
    [][NullFreeStep =>
          /\ ~aborted'
          /\ UNCHANGED <<cassResult, cassValue, meta, rawValue, rowPtr, arc, threads,
                         twin, bindings, iterator>>]_vars

====
